---- MODULE Spec2Model ----
(***************************************************************************)
(* Model of the routing core of ssb-sgis:                                  *)
(*   - gis_utils/od_cost_matrix.py      (function od_cost_matrix)          *)
(*   - sgis/networkanalysis/networkanalysis.py (class NetworkAnalysis)     *)
(*   - gis_utils/directednetwork.py     (class DirectedNetwork)            *)
(*                                                                         *)
(* The specifications share the variables below:                           *)
(*   SpecOD      od_cost_matrix applied to every cost table the path       *)
(*               algorithm may report;                                     *)
(*   SpecODGraph od_cost_matrix applied to the distances of a graph built  *)
(*               by _make_graph;                                           *)
(*   SpecSplit   _split_lines followed by _unsplit_network;                *)
(*   Spec        the NetworkAnalysis instance as a state machine, one      *)
(*               action per analysis call;                                 *)
(*   SpecKRoutes get_k_routes called on a NetworkAnalysis instance;        *)
(*   SpecDirected make_directed_network called on a DirectedNetwork.       *)
(***************************************************************************)
EXTENDS Integers, Sequences, FiniteSets, TLC

VARIABLES
    (* ---- od_cost_matrix: arguments, result, position ---- *)
    od_pc,             \* "init" | "done"
    od_graph,          \* the igraph Graph argument (SpecODGraph), or NoGraph
    od_results,        \* what graph.distances reports: [i][ii] -> float
    startpoints,       \* Seq of [temp_idx, wkt]
    endpoints,         \* Seq of [temp_idx, wkt]
    od_lines,          \* BOOLEAN
    od_rowwise,        \* BOOLEAN
    cutoff,            \* optional int: <<>> is None, <<c>> is c
    destination_count, \* optional int
    od_out,            \* the returned DataFrame: Seq of rows
    (* ---- NetworkAnalysis ---- *)
    nwa,               \* the NetworkAnalysis instance: network, rules, points,
                       \* graph, wkts, log
    call,              \* the last call: method, outcome, results, instance before
    calls,             \* number of analysis calls made so far
    (* ---- DirectedNetwork ---- *)
    nw                 \* the DirectedNetwork instance: gdf, crs

od_vars == <<od_pc, od_graph, od_results, startpoints, endpoints, od_lines,
             od_rowwise, cutoff, destination_count, od_out>>

nwa_vars == <<nwa, call, calls>>

vars == <<od_vars, nwa_vars, nw>>

-----------------------------------------------------------------------------
(* Bounds of the model.                                                    *)

MaxPoints == 2      \* rows of startpoints / endpoints
MaxCost == 2        \* largest finite cost the path algorithm reports
MaxWkt == 2         \* distinct point geometries
NumVertices == 3    \* vertices of the graphs of SpecODGraph
MaxWeight == 3      \* largest edge weight
MaxCoord == 2       \* largest coordinate of a line end (SpecSplit)
MaxLines == 2       \* lines of a network (SpecSplit)
MaxCalls == 2       \* analysis calls made on one instance (Spec)

-----------------------------------------------------------------------------
(* Floating point values as pandas/numpy see them: a number, +-inf or NaN. *)

Num(n) == [k |-> "num", v |-> n]
PosInf == [k |-> "inf", v |-> 1]
NegInf == [k |-> "inf", v |-> -1]
NaN == [k |-> "nan", v |-> 0]

IsNa(x) == x.k = "nan"
IsNum(x) == x.k = "num"

\* x > n and x < n for a float x and an int n (every comparison with NaN is False)
FloatGt(x, n) == \/ x.k = "num" /\ x.v > n
                 \/ x.k = "inf" /\ x.v > 0
FloatLt(x, n) == \/ x.k = "num" /\ x.v < n
                 \/ x.k = "inf" /\ x.v < 0

\* Python truthiness of an optional int argument (`if cutoff:`)
None == <<>>
Some(n) == <<n>>
Truthy(opt) == Len(opt) = 1 /\ opt[1] # 0

Range(s) == {s[i] : i \in DOMAIN s}

Min(a, b) == IF a <= b THEN a ELSE b

-----------------------------------------------------------------------------
(* gis_utils/od_cost_matrix.py                                             *)

\* lines 41-54: one multi-target distance query, then every origin x destination
AllPairsRows(results, sp, ep) ==
    [n \in 1..(Len(sp) * Len(ep)) |->
        LET i  == ((n - 1) \div Len(ep)) + 1
            ii == ((n - 1) % Len(ep)) + 1
        IN  [origin |-> sp[i].temp_idx, destination |-> ep[ii].temp_idx,
             cost |-> results[i][ii]]]

\* lines 56-62: zip(startpoints, endpoints), one distance query per pair
RowwiseRows(results, sp, ep) ==
    [n \in 1..Min(Len(sp), Len(ep)) |->
        [origin |-> sp[n].temp_idx, destination |-> ep[n].temp_idx,
         cost |-> results[n][n]]]

\* line 68: df.replace([np.inf, -np.inf], np.nan)
ReplaceInf(df) == [n \in DOMAIN df |->
                     IF df[n].cost.k = "inf" THEN [df[n] EXCEPT !.cost = NaN]
                     ELSE df[n]]

\* A boolean mask applied with .loc and reset_index(drop=True)
RECURSIVE MaskRows(_, _, _)
MaskRows(df, mask, n) ==
    IF n > Len(df) THEN <<>>
    ELSE (IF mask[n] THEN <<df[n]>> ELSE <<>>) \o MaskRows(df, mask, n + 1)

\* lines 67-71: the mask is computed on df, before the replace
Cleanup(df) ==
    MaskRows(ReplaceInf(df),
             [n \in DOMAIN df |-> FloatGt(df[n].cost, 0) \/ IsNa(df[n].cost)], 1)

\* lines 73-74
ApplyCutoff(out, c) ==
    IF Truthy(c)
    THEN MaskRows(out, [n \in DOMAIN out |-> FloatLt(out[n].cost, c[1])], 1)
    ELSE out

\* line 78: groupby("origin")[cost].idxmin(): per origin the first row holding
\* the minimum; the groups come in ascending order of the origin key
IdxMin(out, o) ==
    CHOOSE n \in DOMAIN out :
        /\ out[n].origin = o
        /\ \A m \in DOMAIN out : out[m].origin = o =>
              \/ out[n].cost.v < out[m].cost.v
              \/ out[n].cost.v = out[m].cost.v /\ n <= m

RECURSIVE SortedSeq(_)
SortedSeq(S) ==
    IF S = {} THEN <<>>
    ELSE LET m == CHOOSE x \in S : \A y \in S : x <= y
         IN  <<m>> \o SortedSeq(S \ {m})

\* lines 76-78
ApplyDestinationCount(out, dc) ==
    IF Truthy(dc)
    THEN LET notna == MaskRows(out, [n \in DOMAIN out |-> ~IsNa(out[n].cost)], 1)
             keys  == SortedSeq({notna[n].origin : n \in DOMAIN notna})
         IN  [g \in DOMAIN keys |-> notna[IdxMin(notna, keys[g])]]
    ELSE out

\* lines 80-86: a dict built from zip(): a later row of the same id wins
WktDict(points, idd) ==
    LET n == CHOOSE n \in DOMAIN points :
                /\ points[n].temp_idx = idd
                /\ \A m \in DOMAIN points : points[m].temp_idx = idd => m <= n
    IN  points[n].wkt

\* Mutant of SamePointToZero: the two value arguments of np.where swapped
SamePointToZero_Swapped(out, sp, ep) ==
    [n \in DOMAIN out |->
        LET wkt_ori == WktDict(sp, out[n].origin)
            wkt_des == WktDict(ep, out[n].destination)
        IN  [origin |-> out[n].origin, destination |-> out[n].destination,
             cost |-> IF wkt_ori # wkt_des THEN Num(0) ELSE out[n].cost,
             wkt_ori |-> wkt_ori, wkt_des |-> wkt_des]]

\* lines 87-90
SamePointToZero(out, sp, ep) ==
    [n \in DOMAIN out |->
        LET wkt_ori == WktDict(sp, out[n].origin)
            wkt_des == WktDict(ep, out[n].destination)
        IN  [origin |-> out[n].origin, destination |-> out[n].destination,
             cost |-> IF wkt_ori # wkt_des THEN out[n].cost ELSE Num(0),
             wkt_ori |-> wkt_ori, wkt_des |-> wkt_des]]

\* lines 93-99: the straight line when asked for, the wkt columns dropped
Finish(out, lines) ==
    [n \in DOMAIN out |->
        [origin |-> out[n].origin, destination |-> out[n].destination,
         cost |-> out[n].cost,
         geometry |-> IF lines THEN <<out[n].wkt_ori, out[n].wkt_des>> ELSE <<>>]]

od_cost_matrix(results, sp, ep, lines, rowwise, c, dc) ==
    LET df  == IF ~rowwise THEN AllPairsRows(results, sp, ep)
               ELSE RowwiseRows(results, sp, ep)
        out == ApplyDestinationCount(ApplyCutoff(Cleanup(df), c), dc)
    IN  Finish(SamePointToZero(out, sp, ep), lines)

-----------------------------------------------------------------------------
(* The igraph Graph: named vertices, weighted edges.                       *)

SeqMin(w) == CHOOSE x \in Range(w) : \A y \in Range(w) : x <= y

\* Mutant of MakeGraphOk: the minimum weight is not asserted
MakeGraphOk_NoMinimum(edges, weights) ==
    /\ Len(edges) = Len(weights)
    /\ Len(weights) > 0

\* networkanalysis.py lines 1487 and 1497: the two assertions of _make_graph
\* (min() of an empty weight list raises as well)
MakeGraphOk(edges, weights) ==
    /\ Len(edges) = Len(weights)
    /\ Len(weights) > 0
    /\ SeqMin(weights) >= 0

\* networkanalysis.py lines 1489-1495: Graph.TupleList creates one vertex per
\* name that occurs in an edge and one edge per tuple
_make_graph(edges, weights, edge_ids, directed) ==
    [vs |-> {edges[n][1] : n \in DOMAIN edges} \cup {edges[n][2] : n \in DOMAIN edges},
     es |-> [n \in DOMAIN edges |->
                [source |-> edges[n][1], target |-> edges[n][2],
                 weight |-> weights[n], source_target_weight |-> edge_ids[n]]],
     directed |-> directed]

\* graph.add_vertices
AddVertices(graph, names) == [graph EXCEPT !.vs = @ \cup names]

\* The ways an edge can be walked: along it, and against it when undirected
Arcs(graph) ==
    UNION {{<<graph.es[n].source, graph.es[n].target, graph.es[n].weight, n>>} \cup
           (IF graph.directed THEN {}
            ELSE {<<graph.es[n].target, graph.es[n].source, graph.es[n].weight, n>>})
           : n \in DOMAIN graph.es}

FloatMin(S) ==
    IF \E x \in S : IsNum(x)
    THEN Num(CHOOSE m \in {x.v : x \in {y \in S : IsNum(y)}} :
                \A x \in {y \in S : IsNum(y)} : m <= x.v)
    ELSE PosInf

RelaxOnce(graph, as, D) ==
    [v \in graph.vs |->
        FloatMin({D[v]} \cup {Num(D[a[1]].v + a[3]) :
                                a \in {b \in as : b[2] = v /\ IsNum(D[b[1]])}})]

RECURSIVE Relax(_, _, _, _)
Relax(graph, as, D, k) ==
    IF k = 0 THEN D
    ELSE LET next == RelaxOnce(graph, as, D)
         IN  IF next = D THEN D ELSE Relax(graph, as, next, k - 1)

\* graph.distances(weights="weight", source=s, target=t): the weight of a
\* lowest-weight path, inf when there is none
SingleSource(graph, s) ==
    Relax(graph, Arcs(graph), [v \in graph.vs |-> IF v = s THEN Num(0) ELSE PosInf],
          Cardinality(graph.vs))

distances(graph, source, target) ==
    [i \in DOMAIN source |->
        LET D == SingleSource(graph, source[i])
        IN  [ii \in DOMAIN target |-> D[target[ii]]]]

TempIdx(points) == [n \in DOMAIN points |-> points[n].temp_idx]

-----------------------------------------------------------------------------
(* SpecOD: the function on every input within the bounds.                  *)

NoGraph == [vs |-> {}, es |-> <<>>, directed |-> FALSE]

\* No NetworkAnalysis instance is involved
NoInstance == [network |-> <<>>]
NoCall == [method |-> "none"]
NoNetwork == [gdf |-> <<>>]

ReportedCosts == {Num(n) : n \in -1..MaxCost} \cup {PosInf}

\* Point tables as the callers build them: temp_idx is unique, origins first,
\* destinations numbered after the origins.
PointTables(first) ==
    UNION {{[i \in 1..n |-> [temp_idx |-> first + i - 1, wkt |-> w[i]]] :
              w \in [1..n -> 1..MaxWkt]} : n \in 1..MaxPoints}

OptionalInts == {None} \cup {Some(n) : n \in 0..MaxCost}

InitOD ==
    /\ od_pc = "init"
    /\ od_graph = NoGraph
    /\ startpoints \in PointTables(1)
    /\ endpoints \in PointTables(Len(startpoints) + 1)
    /\ od_results \in [1..Len(startpoints) -> [1..Len(endpoints) -> ReportedCosts]]
    /\ od_lines \in BOOLEAN
    /\ od_rowwise \in BOOLEAN
    /\ cutoff \in OptionalInts
    /\ destination_count \in {None, Some(1)}
    /\ od_out = <<>>
    /\ nwa = NoInstance /\ call = NoCall /\ calls = 0 /\ nw = NoNetwork

CallOdCostMatrix ==
    /\ od_pc = "init"
    /\ od_out' = od_cost_matrix(od_results, startpoints, endpoints, od_lines,
                                od_rowwise, cutoff, destination_count)
    /\ od_pc' = "done"
    /\ UNCHANGED <<od_graph, od_results, startpoints, endpoints, od_lines,
                   od_rowwise, cutoff, destination_count>>
    /\ UNCHANGED <<nwa_vars, nw>>

NextOD == CallOdCostMatrix

SpecOD == InitOD /\ [][NextOD]_vars

-----------------------------------------------------------------------------
(* SpecODGraph: the function on the distances of a graph that _make_graph  *)
(* built.  The graphs are the weighted sub-graphs of a ring of NumVertices *)
(* vertices (for three vertices: the triangle A-B, B-C, C-A); origins sit  *)
(* on the first vertices and destinations on the last ones.                *)

RingEdge(i) == <<i, (i % NumVertices) + 1>>

EdgeChoices(directed) ==
    {[on |-> FALSE, w |-> 0, rev |-> FALSE]} \cup
    {[on |-> TRUE, w |-> w, rev |-> r] :
        w \in 0..MaxWeight, r \in (IF directed THEN BOOLEAN ELSE {FALSE})}

RECURSIVE ChosenEdges(_, _)
ChosenEdges(choice, i) ==
    IF i > NumVertices THEN <<>>
    ELSE (IF choice[i].on
          THEN <<[edge |-> IF choice[i].rev
                           THEN <<RingEdge(i)[2], RingEdge(i)[1]>>
                           ELSE RingEdge(i),
                  weight |-> choice[i].w]>>
          ELSE <<>>) \o ChosenEdges(choice, i + 1)

GraphOfChoice(choice, directed) ==
    LET ce == ChosenEdges(choice, 1)
    IN  _make_graph([n \in DOMAIN ce |-> ce[n].edge],
                    [n \in DOMAIN ce |-> ce[n].weight],
                    [n \in DOMAIN ce |-> n], directed)

\* An origin is a point of its own; so is a destination, but the last one may
\* be the point of the first origin.
GraphStartpoints(n) == [i \in 1..n |-> [temp_idx |-> i, wkt |-> i]]
GraphEndpoints(m) ==
    {[j \in 1..m |-> [temp_idx |-> NumVertices - m + j,
                      wkt |-> IF same /\ j = m THEN 1 ELSE NumVertices - m + j]] :
        same \in BOOLEAN}

InitODGraph ==
    /\ od_pc = "init"
    /\ \E directed \in BOOLEAN :
       \E choice \in [1..NumVertices -> EdgeChoices(directed)] :
          /\ {i \in 1..NumVertices : choice[i].on} # {}
          /\ od_graph = AddVertices(GraphOfChoice(choice, directed), 1..NumVertices)
    /\ \E n \in 1..MaxPoints, m \in 1..MaxPoints :
          /\ n + m <= NumVertices
          /\ startpoints = GraphStartpoints(n)
          /\ endpoints \in GraphEndpoints(m)
    /\ od_results = distances(od_graph, TempIdx(startpoints), TempIdx(endpoints))
    /\ od_lines = FALSE
    /\ od_rowwise \in BOOLEAN
    /\ \E filter \in {<<None, None>>, <<Some(MaxCost), None>>, <<None, Some(1)>>} :
          cutoff = filter[1] /\ destination_count = filter[2]
    /\ od_out = <<>>
    /\ nwa = NoInstance /\ call = NoCall /\ calls = 0 /\ nw = NoNetwork

SpecODGraph == InitODGraph /\ [][NextOD]_vars

-----------------------------------------------------------------------------
(* Vocabulary of the od_cost_matrix claims.                                *)

\* The OD pairs a call asks for, as positions in startpoints x endpoints
RequestedPairs ==
    IF od_rowwise
    THEN {<<n, n>> : n \in 1..Min(Len(startpoints), Len(endpoints))}
    ELSE (1..Len(startpoints)) \X (1..Len(endpoints))

RowsOf(p) == {n \in DOMAIN od_out :
                /\ od_out[n].origin = startpoints[p[1]].temp_idx
                /\ od_out[n].destination = endpoints[p[2]].temp_idx}

SamePoint(p) == startpoints[p[1]].wkt = endpoints[p[2]].wkt

Reported(p) == od_results[p[1]][p[2]]

NoFilter == cutoff = None /\ destination_count = None

\* Every reported cost is one a graph without negative weights can report
Reportable == \A p \in RequestedPairs : ~FloatLt(Reported(p), 0)

\* C5: every requested OD pair whose origin and destination are the same point
\* is in the result with cost exactly 0, whatever cost was reported for it
\* (stated for the calls without cutoff and destination_count, which remove
\* rows on purpose).
C5_SamePointCostZero ==
    (od_pc = "done" /\ NoFilter /\ Reportable) =>
        \A p \in RequestedPairs :
            SamePoint(p) => \E n \in RowsOf(p) : od_out[n].cost = Num(0)

\* C5: a same-point pair with a reported cost of 0 was requested, and the call
\* is over.
C5_Witness ==
    /\ od_pc = "done" /\ NoFilter /\ Reportable
    /\ \E p \in RequestedPairs : SamePoint(p) /\ Reported(p) = Num(0)

\* C6: without cutoff and destination_count the result has exactly one row per
\* requested OD pair, whatever the reported costs are.
C6_OneRowPerPair ==
    (od_pc = "done" /\ NoFilter /\ Reportable) =>
        /\ Len(od_out) = Cardinality(RequestedPairs)
        /\ \A p \in RequestedPairs : Cardinality(RowsOf(p)) = 1

\* C7: every OD pair for which an infinite or a negative cost is reported is in
\* the result with a NaN cost (stated for pairs of two different points, which
\* the same-point rule does not touch, in calls without cutoff and
\* destination_count).
C7_UnreachableIsNaN ==
    (od_pc = "done" /\ NoFilter) =>
        \A p \in RequestedPairs :
            (~SamePoint(p) /\ (Reported(p).k = "inf" \/ FloatLt(Reported(p), 0)))
                => \E n \in RowsOf(p) : IsNa(od_out[n].cost)

\* C9: a cutoff c removes exactly the rows whose cost is above c: a pair with a
\* finite positive cost is absent when its cost is above c and present when it
\* is at or below c (pairs of two different points, calls with a non-zero
\* cutoff and without destination_count).
C9_CutoffRemovesAbove ==
    (od_pc = "done" /\ Truthy(cutoff) /\ destination_count = None) =>
        \A p \in RequestedPairs :
            (~SamePoint(p) /\ IsNum(Reported(p)) /\ Reported(p).v > 0) =>
                (RowsOf(p) = {} <=> Reported(p).v > cutoff[1])

\* An origin is non-isolated when it reaches at least one of the destinations
\* requested for it: a finite, non-negative cost is reported.
Reaches(p) == IsNum(Reported(p)) /\ Reported(p).v >= 0
NonIsolated(i) == \E p \in RequestedPairs : p[1] = i /\ Reaches(p)
RowsOfOrigin(i) == {n \in DOMAIN od_out : od_out[n].origin = startpoints[i].temp_idx}

\* C10: with destination_count set there is at most one row per origin and
\* exactly one for every non-isolated origin, so the row count is the number of
\* non-isolated origins (calls without cutoff).
C10_OneRowPerNonIsolatedOrigin ==
    (od_pc = "done" /\ Truthy(destination_count) /\ cutoff = None /\ Reportable) =>
        /\ \A i \in DOMAIN startpoints :
              Cardinality(RowsOfOrigin(i)) = (IF NonIsolated(i) THEN 1 ELSE 0)
        /\ Len(od_out) = Cardinality({i \in DOMAIN startpoints : NonIsolated(i)})

\* The total weights of the simple paths from u to t, walked edge by edge
RECURSIVE PathWeights(_, _, _, _)
PathWeights(graph, u, t, visited) ==
    IF u = t THEN {0}
    ELSE UNION {{a[3] + x : x \in PathWeights(graph, a[2], t, visited \cup {a[2]})} :
                  a \in {b \in Arcs(graph) : b[1] = u /\ b[2] \notin visited}}

PathWeightsOf(p) ==
    PathWeights(od_graph, startpoints[p[1]].temp_idx, endpoints[p[2]].temp_idx,
                {startpoints[p[1]].temp_idx})

MinPathWeight(p) == CHOOSE m \in PathWeightsOf(p) : \A x \in PathWeightsOf(p) : m <= x

\* C8 as stated: for every reachable OD pair the returned cost is the minimum
\* total edge weight over all paths between the two points in the graph.
C8_CostIsMinPathWeight ==
    od_pc = "done" =>
        \A p \in RequestedPairs :
            PathWeightsOf(p) # {} =>
                \A n \in RowsOf(p) : od_out[n].cost = Num(MinPathWeight(p))

\* C8 amended: for every reachable OD pair of two different points, the cost
\* in each of its result rows is the minimum total edge weight over all paths
\* between the two points in the graph (never less, never more).
C8_CostIsMinPathWeightOfDistinctPoints ==
    od_pc = "done" =>
        \A p \in RequestedPairs :
            (PathWeightsOf(p) # {} /\ ~SamePoint(p)) =>
                \A n \in RowsOf(p) : od_out[n].cost = Num(MinPathWeight(p))

\* C8: the undirected triangle A-B 1, B-C 2, C-A 3 with origin A and
\* destination C, two different points: the result holds the row A, C, 3.
C8_Witness ==
    /\ od_pc = "done"
    /\ ~od_graph.directed
    /\ Len(od_graph.es) = NumVertices
    /\ \A n \in DOMAIN od_graph.es : od_graph.es[n].weight = n
    /\ \E n \in DOMAIN od_out :
          /\ od_out[n].origin = 1 /\ od_out[n].destination = NumVertices
          /\ od_out[n].cost = Num(NumVertices)
    /\ \A p \in RequestedPairs : ~SamePoint(p)

-----------------------------------------------------------------------------
(* Geometry.  The network lies along one axis: a coordinate is an integer, *)
(* a point geometry is its coordinate, a line geometry is <<from, to>>.    *)

Abs(x) == IF x < 0 THEN -x ELSE x
Max(a, b) == IF a >= b THEN a ELSE b

Length(line) == Abs(line[2] - line[1])

\* Distance from a point to a line
PointLineDistance(p, line) ==
    LET lo == Min(line[1], line[2])
        hi == Max(line[1], line[2])
    IN  IF p < lo THEN lo - p ELSE IF p > hi THEN p - hi ELSE 0

Geometries(gdf) == [n \in DOMAIN gdf |-> gdf[n].geometry]

-----------------------------------------------------------------------------
(* The network: a GeoDataFrame of lines and the table of its nodes.        *)
(* A row of gdf is [geometry, weight, meters_, temp_idx__, splitted,       *)
(* source_target_weight]; a column the frame does not have yet, or a NaN   *)
(* cell, is None.  splitted is TRUE where the cell equals 1.               *)

LineRow(geometry, weight) ==
    [geometry |-> geometry, weight |-> weight, meters_ |-> None,
     temp_idx__ |-> None, splitted |-> FALSE, source_target_weight |-> None]

EndpointsOf(gdf) ==
    {gdf[n].geometry[1] : n \in DOMAIN gdf} \cup {gdf[n].geometry[2] : n \in DOMAIN gdf}

\* Network._make_node_ids: every endpoint coordinate once; node_id is the
\* position in the table, counted from 0
make_node_ids(gdf) == SortedSeq(EndpointsOf(gdf))

NodeId(nodes, coordinate) == (CHOOSE i \in DOMAIN nodes : nodes[i] = coordinate) - 1

MaxNodeId(nodes) == Len(nodes) - 1

nodes_are_up_to_date(network) == Range(network.nodes) = EndpointsOf(network.gdf)

update_nodes_if(network) ==
    IF nodes_are_up_to_date(network) THEN network
    ELSE [network EXCEPT !.nodes = make_node_ids(network.gdf)]

\* Network.get_edges: (source node id, target node id) of every line
get_edges(network) ==
    [n \in DOMAIN network.gdf |->
        <<NodeId(network.nodes, network.gdf[n].geometry[1]),
          NodeId(network.nodes, network.gdf[n].geometry[2])>>]

\* Network._create_edge_ids: source_target_weight
create_edge_ids(edges, weights) ==
    [n \in DOMAIN edges |-> <<edges[n][1], edges[n][2], weights[n]>>]

-----------------------------------------------------------------------------
(* Origins / Destinations: the caller's table [idx, geometry] with the     *)
(* temp_idx column the analysis adds.                                      *)

Points(table) ==
    [n \in DOMAIN table |->
        [idx |-> table[n].idx, geometry |-> table[n].geometry, temp_idx |-> None]]

\* Points._make_temp_idx(start)
make_temp_idx(points, start) ==
    [n \in DOMAIN points |-> [points[n] EXCEPT !.temp_idx = start + n - 1]]

MaxTempIdx(points) == points[Len(points)].temp_idx

\* Points.idx_dict: temp_idx -> the caller's index value
idx_dict(points, temp) ==
    points[CHOOSE n \in DOMAIN points : points[n].temp_idx = temp].idx

\* The nodes a point is attached to: those within search_tolerance, and when
\* there is none those within search_tolerance * search_factor
NodesNear(p, nodes, rules) ==
    LET within(d) == {i \in DOMAIN nodes : Abs(nodes[i] - p) <= d}
    IN  IF within(rules.search_tolerance) # {}
        THEN within(rules.search_tolerance)
        ELSE within(rules.search_tolerance * rules.search_factor)

RECURSIVE Connectors(_, _, _, _, _)
\* Points._get_edges_and_weights: one connector per point and near node, from
\* the point for an origin and to the point for a destination, weighted by the
\* distance
Connectors(points, nodes, rules, outwards, n) ==
    IF n > Len(points) THEN <<>>
    ELSE LET near == SortedSeq(NodesNear(points[n].geometry, nodes, rules))
         IN  [k \in DOMAIN near |->
                [edge |-> IF outwards THEN <<points[n].temp_idx, near[k] - 1>>
                          ELSE <<near[k] - 1, points[n].temp_idx>>,
                 weight |-> Abs(nodes[near[k]] - points[n].geometry)]]
             \o Connectors(points, nodes, rules, outwards, n + 1)

-----------------------------------------------------------------------------
(* Splitting the lines at the points, and undoing it.                      *)

\* The coordinates at which a line is cut: the points that lie on it, within
\* max_distance, and not on one of its ends
Cuts(line, points, max_distance) ==
    {p \in points : /\ PointLineDistance(p, line) <= max_distance
                    /\ Min(line[1], line[2]) < p
                    /\ p < Max(line[1], line[2])}

\* The pieces of a line cut at the coordinates, in the direction of the line
Pieces(line, cuts) ==
    LET stops == IF line[1] < line[2]
                 THEN <<line[1]>> \o SortedSeq(cuts) \o <<line[2]>>
                 ELSE <<line[2]>> \o SortedSeq(cuts) \o <<line[1]>>
        k == Len(stops) - 1
    IN  [i \in 1..k |-> IF line[1] < line[2] THEN <<stops[i], stops[i + 1]>>
                        ELSE <<stops[k + 2 - i], stops[k + 1 - i]>>]

RECURSIVE SplittedRows(_, _, _, _)
SplittedRows(lines, points, max_distance, n) ==
    IF n > Len(lines) THEN <<>>
    ELSE LET cuts == Cuts(lines[n].geometry, points, max_distance)
             pieces == Pieces(lines[n].geometry, cuts)
         IN  (IF cuts = {} THEN <<>>
              ELSE [i \in DOMAIN pieces |->
                      [lines[n] EXCEPT !.geometry = pieces[i], !.splitted = TRUE]])
             \o SplittedRows(lines, points, max_distance, n + 1)

\* split_lines_by_nearest_point: the lines no point cuts pass through as they
\* are, followed by the pieces of the others, which are marked splitted = 1
split_lines_by_nearest_point(lines, points, max_distance) ==
    MaskRows(lines, [n \in DOMAIN lines |->
                        Cuts(lines[n].geometry, points, max_distance) = {}], 1)
    \o SplittedRows(lines, points, max_distance, 1)

\* networkanalysis.py lines 1412-1444
_split_lines(self) ==
    LET points == Range(Geometries(self.origins[1])) \cup
                  (IF self.destinations # None
                   THEN Range(Geometries(self.destinations[1])) ELSE {})
        gdf == [n \in DOMAIN self.network.gdf |->
                  [self.network.gdf[n] EXCEPT
                      !.meters_ = Some(Length(self.network.gdf[n].geometry)),
                      !.temp_idx__ = Some(n - 1)]]
        lines == split_lines_by_nearest_point(gdf, points,
                                              self.rules.search_tolerance)
        splitted == {lines[n].temp_idx__ : n \in {m \in DOMAIN lines : lines[m].splitted}}
        not_splitted == MaskRows(gdf, [n \in DOMAIN gdf |->
                                          gdf[n].temp_idx__ \in splitted], 1)
    IN  [self EXCEPT
            !.network.gdf = [n \in DOMAIN lines |->
                [lines[n] EXCEPT !.weight =
                    (@ * Length(lines[n].geometry)) \div lines[n].meters_[1]]],
            !.network.not_splitted = Some(not_splitted)]

\* line 1448 reads the column splitted, line 1450 the attribute _not_splitted:
\* AttributeError when the lines were not split before
UnsplitRaises(self) == self.network.not_splitted = None

\* Mutant of _unsplit_network: keeps the pieces instead of the other lines
_unsplit_network_KeepPieces(self) ==
    LET gdf == self.network.gdf
        lines == MaskRows(gdf, [n \in DOMAIN gdf |-> gdf[n].splitted], 1)
        all == lines \o self.network.not_splitted[1]
    IN  [self EXCEPT
            !.network.gdf = [n \in DOMAIN all |-> [all[n] EXCEPT !.temp_idx__ = None]],
            !.network.not_splitted = None]

\* networkanalysis.py lines 1446-1452
_unsplit_network(self) ==
    LET gdf == self.network.gdf
        lines == MaskRows(gdf, [n \in DOMAIN gdf |-> ~gdf[n].splitted], 1)
        all == lines \o self.network.not_splitted[1]
    IN  [self EXCEPT
            !.network.gdf = [n \in DOMAIN all |-> [all[n] EXCEPT !.temp_idx__ = None]],
            !.network.not_splitted = None]

-----------------------------------------------------------------------------
(* NetworkAnalysisRules and the NetworkAnalysis instance.  An attribute    *)
(* that is not set, or is None, holds None; a set one holds Some(value).   *)

RuleValues(rules) ==
    <<rules.weight, rules.search_tolerance, rules.search_factor, rules.split_lines>>

\* NetworkAnalysisRules._update_rules: remember the values the graph was built with
update_rules(rules) == [rules EXCEPT !.saved = Some(RuleValues(rules))]

\* NetworkAnalysisRules._rules_have_changed
rules_have_changed(rules) == rules.saved # Some(RuleValues(rules))

\* networkanalysis.py lines 1536-1554
_update_wkts(self) ==
    [self EXCEPT !.wkts =
        Some([network |-> Some(Geometries(self.network.gdf)),
              origins |-> IF self.origins = None THEN None
                          ELSE Some(Geometries(self.origins[1])),
              destinations |-> IF self.origins = None \/ self.destinations = None
                               THEN None
                               ELSE Some(Geometries(self.destinations[1]))])]

\* networkanalysis.py lines 193-227: NetworkAnalysis(network, rules, log).
\* Without log the instance has no attribute log: None.
NetworkAnalysis(network, rules, log) ==
    LET self == [network |-> network, rules |-> rules, _log |-> log,
                 origins |-> None, destinations |-> None, graph |-> None,
                 wkts |-> None, log |-> IF log THEN Some(<<>>) ELSE None]
    IN  [_update_wkts(self) EXCEPT !.rules = update_rules(rules)]

\* The attributes of a Python dict: what hasattr() finds on self.wkts.  The
\* keys of the dict are items, not attributes.
DictAttributes ==
    {"clear", "copy", "fromkeys", "get", "items", "keys", "pop", "popitem",
     "setdefault", "update", "values"}

HasAttr(dict, name) == name \in DictAttributes

\* networkanalysis.py lines 1522-1534
_points_have_changed(self, points, what) ==
    \/ self.wkts[1][what] # Some(Geometries(points))
    \/ ~(\A n \in DOMAIN points : points[n].temp_idx \in self.graph[1].vs)

\* Mutant of _graph_is_up_to_date: the keys of self.wkts are looked up as
\* items, so an unchanged graph is found up to date
_graph_is_up_to_date_KeysAsItems(self) ==
    IF self.graph = None \/ self.wkts = None THEN FALSE
    ELSE IF rules_have_changed(self.rules) THEN FALSE
    ELSE \A points \in {"origins", "destinations"} :
            /\ self.wkts[1][points] # None
            /\ self[points] # None
            /\ ~_points_have_changed(self, self[points][1], points)

\* networkanalysis.py lines 1501-1520
_graph_is_up_to_date(self) ==
    IF self.graph = None \/ self.wkts = None THEN FALSE
    ELSE IF rules_have_changed(self.rules) THEN FALSE
    ELSE \A points \in {"origins", "destinations"} :
            /\ HasAttr(self.wkts[1], points)
            /\ ~_points_have_changed(self, self[points][1], points)

\* networkanalysis.py lines 1369-1378: the lines are split at the points, and
\* the node ids and the temp ids are made anew for the split network
SplitAndRenumber(self) ==
    LET renumber(a, nodes) ==
            LET origins == make_temp_idx(a.origins[1], MaxNodeId(nodes) + 1)
            IN  [a EXCEPT
                   !.network.nodes = nodes,
                   !.origins = Some(origins),
                   !.destinations =
                      IF a.destinations # None
                      THEN Some(make_temp_idx(a.destinations[1],
                                              MaxTempIdx(origins) + 1))
                      ELSE None]
        splitted(a) == renumber(a, make_node_ids(a.network.gdf))
    IN  splitted(_split_lines(self))

\* networkanalysis.py lines 1361-1410.  Read from the bottom: the network's
\* edges and weights, their ids written to the lines, the connectors of the
\* points, and the concatenation that is returned.
_get_edges_and_weights(self) ==
    LET concatenated(s2, net_edges, net_weights, start, end) ==
            LET edges == net_edges \o [n \in DOMAIN start |-> start[n].edge]
                                   \o [n \in DOMAIN end |-> end[n].edge]
                weights == net_weights \o [n \in DOMAIN start |-> start[n].weight]
                                       \o [n \in DOMAIN end |-> end[n].weight]
            IN  [self |-> s2, edges |-> edges, weights |-> weights,
                 edge_ids |-> create_edge_ids(edges, weights)]
        connected(s2, net_edges, net_weights) ==
            concatenated(s2, net_edges, net_weights,
               Connectors(s2.origins[1], s2.network.nodes, s2.rules, TRUE, 1),
               IF s2.destinations = None THEN <<>>
               ELSE Connectors(s2.destinations[1], s2.network.nodes, s2.rules,
                               FALSE, 1))
        identified(s1, net_edges, net_weights, net_ids) ==
            connected([s1 EXCEPT !.network.gdf =
                         [n \in DOMAIN @ |->
                             [@[n] EXCEPT !.source_target_weight = Some(net_ids[n])]]],
                      net_edges, net_weights)
        weighted(s1, net_edges, net_weights) ==
            identified(s1, net_edges, net_weights,
                       create_edge_ids(net_edges, net_weights))
        network(s1) ==
            weighted(s1, get_edges(s1.network),
                     [n \in DOMAIN s1.network.gdf |-> s1.network.gdf[n].weight])
    IN  network(IF self.rules.split_lines THEN SplitAndRenumber(self) ELSE self)

\* Mutant of _add_missing_vertices: the origins are left out
_add_missing_vertices_DestinationsOnly(self) ==
    [self EXCEPT !.graph =
        Some(IF self.destinations # None
             THEN AddVertices(self.graph[1], Range(TempIdx(self.destinations[1])))
             ELSE self.graph[1])]

\* networkanalysis.py lines 1454-1477
_add_missing_vertices(self) ==
    LET g1 == AddVertices(self.graph[1], Range(TempIdx(self.origins[1])))
    IN  [self EXCEPT !.graph =
            Some(IF self.destinations # None
                 THEN AddVertices(g1, Range(TempIdx(self.destinations[1])))
                 ELSE g1)]

RowwiseLengthsDiffer_Never(origins, destinations, rowwise) == FALSE

\* networkanalysis.py lines 1322-1326: `if rowwise and len(origins) !=
\* len(destinations)`, the first statement of the method
RowwiseLengthsDiffer(origins, destinations, rowwise) ==
    rowwise /\ Len(origins) # Len(destinations[1])

\* networkanalysis.py lines 1312-1359.  The outcome names the exception that
\* ended the method ("none" when it returned); rebuilt tells whether the graph
\* was made anew; self is the instance as the method left it; built holds
\* what _make_graph was handed at line 1349: the edges and weights, and the
\* node table and the temp ids they were made from.
_prepare_network_analysis(self, origins, destinations, rowwise) ==
    IF RowwiseLengthsDiffer(origins, destinations, rowwise)
    THEN [raised |-> "ValueError", rebuilt |-> FALSE, split |-> FALSE, self |-> self,
          built |-> None]
    ELSE
    LET ori == make_temp_idx(Points(origins), MaxNodeId(self.network.nodes) + 1)
        finish(s) == [_update_wkts(s) EXCEPT !.rules = update_rules(s.rules)]
        handed(ew) ==
            Some([edges |-> ew.edges, weights |-> ew.weights,
                  nodes |-> ew.self.network.nodes,
                  origins |-> TempIdx(ew.self.origins[1]),
                  destinations |-> IF ew.self.destinations = None THEN <<>>
                                   ELSE TempIdx(ew.self.destinations[1])])
        build(s0, ew) ==
            IF ~MakeGraphOk(ew.edges, ew.weights)
            THEN [raised |-> "AssertionError", rebuilt |-> FALSE,
                  split |-> s0.rules.split_lines, self |-> ew.self,
                  built |-> handed(ew)]
            ELSE [raised |-> "none", rebuilt |-> TRUE,
                  split |-> s0.rules.split_lines, built |-> handed(ew),
                  self |-> finish(_add_missing_vertices(
                              [ew.self EXCEPT !.graph =
                                  Some(_make_graph(ew.edges, ew.weights, ew.edge_ids,
                                                   ew.self.network.as_directed))]))]
        prepare(s0) ==
            IF _graph_is_up_to_date(s0) /\ nodes_are_up_to_date(s0.network)
            THEN [raised |-> "none", rebuilt |-> FALSE, split |-> FALSE,
                  self |-> finish(s0), built |-> None]
            ELSE build(s0, _get_edges_and_weights(
                              [s0 EXCEPT !.network = update_nodes_if(@)]))
    IN  prepare([self EXCEPT
                   !.origins = Some(ori),
                   !.destinations =
                      IF destinations # None
                      THEN Some(make_temp_idx(Points(destinations[1]),
                                              MaxTempIdx(ori) + 1))
                      ELSE None])

-----------------------------------------------------------------------------
(* SpecSplit: _split_lines followed by _unsplit_network, on every network  *)
(* of at most MaxLines lines between the coordinates 0..MaxCoord and every *)
(* set of points.  A line may carry splitted = 1 from an earlier call.     *)

Coordinates == 0..MaxCoord

SplitLineRows ==
    {[LineRow(line, Length(line)) EXCEPT !.splitted = s] :
        line \in {l \in Coordinates \X Coordinates : l[1] # l[2]}, s \in BOOLEAN}

SplitNetworks == UNION {[1..n -> SplitLineRows] : n \in 1..MaxLines}

\* The caller's table of the points at the coordinates, indexed -1, -2, ...
TableOf(coordinates) ==
    LET s == SortedSeq(coordinates)
    IN  [n \in DOMAIN s |-> [idx |-> -n, geometry |-> s[n]]]

SplitRules ==
    [weight |-> "meters", search_tolerance |-> 1, search_factor |-> 1,
     split_lines |-> TRUE, saved |-> None]

InitSplit ==
    /\ od_pc = "off" /\ od_graph = NoGraph /\ od_results = <<>>
    /\ startpoints = <<>> /\ endpoints = <<>>
    /\ od_lines = FALSE /\ od_rowwise = FALSE
    /\ cutoff = None /\ destination_count = None /\ od_out = <<>>
    /\ \E gdf \in SplitNetworks :
       \E origins \in (SUBSET Coordinates) \ {{}} :
       \E destinations \in {None, Some(TableOf({MaxCoord - 1}))} :
          LET network == [gdf |-> gdf, nodes |-> make_node_ids(gdf),
                          not_splitted |-> None, as_directed |-> FALSE]
              self == NetworkAnalysis(network, SplitRules, FALSE)
              ori == make_temp_idx(Points(TableOf(origins)),
                                   MaxNodeId(network.nodes) + 1)
          IN  nwa = [self EXCEPT
                       !.origins = Some(ori),
                       !.destinations =
                          IF destinations = None THEN None
                          ELSE Some(make_temp_idx(Points(destinations[1]),
                                                  MaxTempIdx(ori) + 1))]
    /\ call = [method |-> "none", pre |-> nwa, splitted |-> nwa]
    /\ calls = 0 /\ nw = NoNetwork

SplitLines ==
    /\ call.method = "none"
    /\ nwa' = _split_lines(nwa)
    /\ call' = [method |-> "_split_lines", pre |-> nwa, splitted |-> nwa']
    /\ UNCHANGED <<od_vars, calls, nw>>

UnsplitNetwork ==
    /\ call.method = "_split_lines"
    /\ ~UnsplitRaises(nwa)
    /\ nwa' = _unsplit_network(nwa)
    /\ call' = [call EXCEPT !.method = "_unsplit_network"]
    /\ UNCHANGED <<od_vars, calls, nw>>

NextSplit == SplitLines \/ UnsplitNetwork

SpecSplit == InitSplit /\ [][NextSplit]_vars

-----------------------------------------------------------------------------
(* The analysis functions the methods call on the built graph.             *)

\* A point table as od_cost_matrix reads it: temp_idx and the wkt of the point
WithWkt(points) ==
    [n \in DOMAIN points |->
        [temp_idx |-> points[n].temp_idx, wkt |-> points[n].geometry]]

\* The OD pairs of a call, as row numbers of origins and destinations
PairsOf(origins, destinations, rowwise) ==
    IF rowwise THEN [n \in 1..Min(Len(origins), Len(destinations)) |-> <<n, n>>]
    ELSE [n \in 1..(Len(origins) * Len(destinations)) |->
            <<((n - 1) \div Len(destinations)) + 1, ((n - 1) % Len(destinations)) + 1>>]

RECURSIVE Paths(_, _, _, _)
\* The simple paths from u to t, each the sequence of the arcs it walks
Paths(as, u, t, visited) ==
    IF u = t THEN {<<>>}
    ELSE UNION {{<<a>> \o p : p \in Paths(as, a[2], t, visited \cup {a[2]})} :
                  a \in {b \in as : b[1] = u /\ b[2] \notin visited}}

RECURSIVE PathWeight(_)
PathWeight(p) == IF p = <<>> THEN 0 ELSE p[1][3] + PathWeight(Tail(p))

\* graph.get_shortest_paths: a path of the lowest weight
ShortestPath(graph, s, t) ==
    LET all == Paths(Arcs(graph), s, t, {s})
    IN  CHOOSE p \in all : \A q \in all : PathWeight(p) <= PathWeight(q)

HasPath(graph, s, t) == Paths(Arcs(graph), s, t, {s}) # {}

\* The geometries of the roads whose edge id lies on the path
RoadsOnPath(graph, path, roads) ==
    {roads[n].geometry : n \in
        {m \in DOMAIN roads : roads[m].source_target_weight \in
            {Some(graph.es[path[i][4]].source_target_weight) : i \in DOMAIN path}}}

RECURSIVE RouteRows(_, _, _, _, _, _)
RouteRows(graph, origins, destinations, roads, pairs, n) ==
    IF n > Len(pairs) THEN <<>>
    ELSE LET o == origins[pairs[n][1]].temp_idx
             d == destinations[pairs[n][2]].temp_idx
         IN  (IF HasPath(graph, o, d)
              THEN LET path == ShortestPath(graph, o, d)
                   IN  <<[origin |-> o, destination |-> d,
                          cost |-> Num(PathWeight(path)),
                          geometry |-> RoadsOnPath(graph, path, roads)]>>
              ELSE <<>>)
             \o RouteRows(graph, origins, destinations, roads, pairs, n + 1)

\* _get_route: one row per OD pair that has a path; "ValueError: if no paths
\* were found" (docstring of get_route) when there is no row
_get_route(graph, origins, destinations, roads, rowwise) ==
    RouteRows(graph, origins, destinations, roads,
              PairsOf(origins, destinations, rowwise), 1)

\* The cost at which a line is travelled to its end, and the part of it that
\* is reached within the break when that is not all of it
LineCost(D, graph, nodes, line) ==
    LET s == D[NodeId(nodes, line.geometry[1])]
        t == D[NodeId(nodes, line.geometry[2])]
    IN  FloatMin({Num(x.v + line.weight) :
                     x \in {y \in {s} \cup (IF graph.directed THEN {} ELSE {t}) : IsNum(y)}})

PartOfLine(D, graph, nodes, line, break) ==
    LET s == D[NodeId(nodes, line.geometry[1])]
        t == D[NodeId(nodes, line.geometry[2])]
        a == line.geometry[1]
        b == line.geometry[2]
        reach(x) == ((break - x.v) * Length(line.geometry)) \div line.weight
    IN  IF IsNum(s) /\ s.v < break
        THEN {<<a, IF a < b THEN a + reach(s) ELSE a - reach(s)>>}
        ELSE IF ~graph.directed /\ IsNum(t) /\ t.v < break
        THEN {<<IF a < b THEN b - reach(t) ELSE b + reach(t), b>>}
        ELSE {}

RECURSIVE ServiceAreaRows(_, _, _, _, _, _, _, _)
ServiceAreaRows(D, graph, origin, break, lines, nodes, precice, n) ==
    IF n > Len(lines) THEN <<>>
    ELSE LET cost == LineCost(D, graph, nodes, lines[n])
             part == IF precice /\ lines[n].weight > 0
                     THEN PartOfLine(D, graph, nodes, lines[n], break) ELSE {}
             row(geometry) == [origin |-> origin, break |-> Some(break),
                               source_target_weight |-> lines[n].source_target_weight,
                               geometry |-> Some({geometry})]
         IN  (IF IsNum(cost) /\ cost.v <= break THEN <<row(lines[n].geometry)>>
              ELSE IF part # {} THEN <<row(CHOOSE g \in part : TRUE)>>
              ELSE <<>>)
             \o ServiceAreaRows(D, graph, origin, break, lines, nodes, precice, n + 1)

RECURSIVE _service_area(_, _, _, _, _, _, _)
\* _service_area: for every origin and every break the lines reached within
\* the break, or one row of NaN geometry when there is none; k counts the
\* (origin, break) combinations
_service_area(graph, origins, breaks, lines, nodes, precice, k) ==
    IF k > Len(origins) * Len(breaks) THEN <<>>
    ELSE LET origin == origins[((k - 1) \div Len(breaks)) + 1].temp_idx
             break == breaks[((k - 1) % Len(breaks)) + 1]
             rows == ServiceAreaRows(SingleSource(graph, origin), graph, origin, break,
                                     lines, nodes, precice, 1)
         IN  (IF rows = <<>>
              THEN <<[origin |-> origin, break |-> Some(break),
                      source_target_weight |-> None, geometry |-> None]>>
              ELSE rows)
             \o _service_area(graph, origins, breaks, lines, nodes, precice, k + 1)

-----------------------------------------------------------------------------
(* The analysis methods of NetworkAnalysis.  Each gives the instance as    *)
(* the method left it, the exception that ended it ("none" when it         *)
(* returned) and the returned table.                                       *)

\* networkanalysis.py lines 1276-1310: one row appended to the log
_runlog(self, fun) ==
    [self EXCEPT !.log = Some(Append(@[1], [method |-> fun,
                                            origins_count |-> Len(self.origins[1])]))]

\* The end of every method: the lines are unsplit when rules.split_lines is
\* set, the call is logged and the results are returned; unsplit tells
\* whether _unsplit_network was called
Return(prep, self, fun, results) ==
    IF self.rules.split_lines /\ UnsplitRaises(self)
    THEN [prep EXCEPT !.raised = "AttributeError", !.self = self]
         @@ [results |-> <<>>, unsplit |-> TRUE]
    ELSE LET unsplit == IF self.rules.split_lines THEN _unsplit_network(self)
                        ELSE self
         IN  [prep EXCEPT !.self = IF self._log THEN _runlog(unsplit, fun)
                                   ELSE unsplit]
             @@ [results |-> results, unsplit |-> self.rules.split_lines]

\* The method ends with an exception before its last lines
Raise(prep, error) ==
    [prep EXCEPT !.raised = error] @@ [results |-> <<>>, unsplit |-> FALSE]

\* lines 465-466, 559-560: the temp ids mapped back to the caller's index
MapOriginDestination(self, results) ==
    [n \in DOMAIN results |->
        [results[n] EXCEPT !.origin = idx_dict(self.origins[1], @),
                           !.destination = idx_dict(self.destinations[1], @)]]

\* networkanalysis.py lines 451-484
NetworkAnalysis_od_cost_matrix(self0, origins, destinations, lines, rowwise) ==
    LET results(self) ==
            od_cost_matrix(
               distances(self.graph[1], TempIdx(self.origins[1]),
                         TempIdx(self.destinations[1])),
               WithWkt(self.origins[1]), WithWkt(self.destinations[1]),
               lines, rowwise, None, None)
        analysis(prep) ==
            IF prep.raised # "none" THEN Raise(prep, prep.raised)
            ELSE Return(prep, prep.self, "od_cost_matrix",
                        MapOriginDestination(prep.self, results(prep.self)))
    IN  analysis(_prepare_network_analysis(self0, origins, Some(destinations), rowwise))

\* networkanalysis.py lines 545-574
get_route(self0, origins, destinations, rowwise) ==
    LET returned(prep, results) ==
            IF results = <<>> THEN Raise(prep, "ValueError")
            ELSE Return(prep, prep.self, "get_route",
                        MapOriginDestination(prep.self, results))
        analysis(prep) ==
            IF prep.raised # "none" THEN Raise(prep, prep.raised)
            ELSE returned(prep, _get_route(prep.self.graph[1], prep.self.origins[1],
                                           prep.self.destinations[1],
                                           prep.self.network.gdf, rowwise))
    IN  analysis(_prepare_network_analysis(self0, origins, Some(destinations), rowwise))

\* networkanalysis.py lines 1556-1570, for an iterable of numbers
_sort_breaks(breaks) == SortSeq(breaks, LAMBDA a, b : a < b)

\* drop_duplicates(["source_target_weight", "origin"]): the first row of each key
DropDuplicates(results) ==
    MaskRows(results,
             [n \in DOMAIN results |->
                 \A m \in 1..(n - 1) :
                    \/ results[m].source_target_weight # results[n].source_target_weight
                    \/ results[m].origin # results[n].origin], 1)

RECURSIVE SortedKeys(_)
\* The (origin, break) group keys in ascending order
SortedKeys(S) ==
    IF S = {} THEN <<>>
    ELSE LET m == CHOOSE x \in S : \A y \in S :
                     x[1] < y[1] \/ (x[1] = y[1] /\ x[2] <= y[2])
         IN  <<m>> \o SortedKeys(S \ {m})

\* dissolve(by=["origin", weight]).loc[:, ["geometry"]]: one row per group,
\* its geometry the union of the group's geometries
Dissolve(results) ==
    LET keys == SortedKeys({<<results[n].origin, results[n].break[1]>> :
                               n \in DOMAIN results})
        group(k) == {n \in DOMAIN results :
                        <<results[n].origin, results[n].break[1]>> = keys[k]}
        geoms(k) == {results[n].geometry : n \in group(k)} \ {None}
    IN  [k \in DOMAIN keys |->
            [origin |-> keys[k][1], break |-> Some(keys[k][2]),
             geometry |-> IF geoms(k) = {} THEN None
                          ELSE Some(UNION {g[1] : g \in geoms(k)})]]

\* lines 1019-1026: the origins without a row get one of NaN
MissingRows(self, results, dissolve) ==
    LET origins == self.origins[1]
        missing == MaskRows(origins,
                      [n \in DOMAIN origins |->
                          \A m \in DOMAIN results :
                             results[m].origin # origins[n].temp_idx], 1)
    IN  [n \in DOMAIN missing |->
            IF dissolve
            THEN [origin |-> missing[n].temp_idx, break |-> None, geometry |-> None]
            ELSE [origin |-> missing[n].temp_idx, break |-> None,
                  source_target_weight |-> None, geometry |-> None]]

AllGeometryNa(results) == \A n \in DOMAIN results : results[n].geometry = None

\* results.drop("origin", axis=1)
DropOrigin(results, dissolve) ==
    [n \in DOMAIN results |->
        IF dissolve
        THEN [break |-> results[n].break, geometry |-> results[n].geometry]
        ELSE [break |-> results[n].break,
              source_target_weight |-> results[n].source_target_weight,
              geometry |-> results[n].geometry]]

\* lines 1009-1030 and 1136-1158: skipped when every geometry is NaN
ServiceAreaTable(self, results, dissolve, precice) ==
    IF AllGeometryNa(results) THEN results
    ELSE LET unique == DropDuplicates(results)
             grouped == IF dissolve THEN Dissolve(unique) ELSE unique
             all == grouped \o MissingRows(self, grouped, dissolve)
             mapped == [n \in DOMAIN all |->
                          [all[n] EXCEPT !.origin = idx_dict(self.origins[1], @)]]
         IN  IF precice THEN DropOrigin(mapped, dissolve) ELSE mapped

\* networkanalysis.py lines 990-1045 (precice = FALSE), 1117-1173 (TRUE)
ServiceAreaMethod(self0, origins, breaks, dissolve, precice) ==
    LET results(self) ==
            _service_area(self.graph[1], self.origins[1], _sort_breaks(breaks),
                          self.network.gdf, self.network.nodes, precice, 1)
        analysis(prep) ==
            IF prep.raised # "none" THEN Raise(prep, prep.raised)
            ELSE Return(prep, prep.self, "service_area",
                        ServiceAreaTable(prep.self, results(prep.self),
                                         dissolve, precice))
    IN  analysis(_prepare_network_analysis(self0, origins, None, FALSE))

service_area(self, origins, breaks, dissolve) ==
    ServiceAreaMethod(self, origins, breaks, dissolve, FALSE)

precice_service_area(self, origins, breaks, dissolve) ==
    ServiceAreaMethod(self, origins, breaks, dissolve, TRUE)

-----------------------------------------------------------------------------
(* Spec: one NetworkAnalysis instance and the calls made on it.  The       *)
(* network is the triangle of the lines 0-2, 2-4 and 0-4, weighted by      *)
(* length; the points lie inside a line (1 and 3) or away from every line  *)
(* (7, which no search tolerance reaches).  The instance keeps no log.     *)

NetworkLines == <<LineRow(<<0, 2>>, 2), LineRow(<<2, 4>>, 2), LineRow(<<0, 4>>, 4)>>

PointTableMenu == {TableOf({1}), TableOf({3}), TableOf({7}), TableOf({1, 7})}

BreaksMenu == {<<1>>, <<3, 1>>, <<5, 3, 1>>}

Rules(split_lines) ==
    [weight |-> "meters", search_tolerance |-> 1, search_factor |-> 2,
     split_lines |-> split_lines, saved |-> None]

\* The graph the instance holds was built for these points, this network and
\* these rules: the geometries are the ones recorded at the last build, no
\* rule has changed since, and the temp ids the points get are vertices
SameAsLastBuild(self, origins, destinations) ==
    LET first == MaxNodeId(self.network.nodes) + 1
        ids == first..(first + Len(origins) - 1 +
                       (IF destinations = None THEN 0 ELSE Len(destinations[1])))
    IN  /\ self.graph # None /\ self.wkts # None
        /\ self.wkts[1].network = Some(Geometries(self.network.gdf))
        /\ self.wkts[1].origins = Some(Geometries(origins))
        /\ self.wkts[1].destinations =
              (IF destinations = None THEN None ELSE Some(Geometries(destinations[1])))
        /\ ~rules_have_changed(self.rules)
        /\ ids \subseteq self.graph[1].vs

Init ==
    /\ od_pc = "off" /\ od_graph = NoGraph /\ od_results = <<>>
    /\ startpoints = <<>> /\ endpoints = <<>>
    /\ od_lines = FALSE /\ od_rowwise = FALSE
    /\ cutoff = None /\ destination_count = None /\ od_out = <<>>
    /\ \E as_directed \in BOOLEAN, split_lines \in BOOLEAN :
          nwa = NetworkAnalysis([gdf |-> NetworkLines,
                                 nodes |-> make_node_ids(NetworkLines),
                                 not_splitted |-> None,
                                 as_directed |-> as_directed],
                                Rules(split_lines), FALSE)
    /\ call = [method |-> "none", raised |-> "none", rebuilt |-> FALSE,
               split |-> FALSE, results |-> <<>>, origins |-> <<>>,
               destinations |-> None, split_lines |-> FALSE,
               had_graph |-> FALSE, same_as_last_build |-> FALSE,
               lines_before |-> <<>>, rowwise |-> FALSE, unchanged |-> TRUE,
               breaks |-> <<>>, dissolve |-> FALSE]
    /\ calls = 0 /\ nw = NoNetwork

\* What a call leaves behind: the instance as the method left it, and the
\* record of the call; unchanged tells whether the method left the instance
\* (network, graph, origins, destinations, wkts, rules, log) as it found it
Called(method, origins, destinations, rowwise, breaks, dissolve, returned) ==
    /\ calls < MaxCalls
    /\ calls' = calls + 1
    /\ LET r == returned
       IN  /\ nwa' = r.self
           /\ call' = [method |-> method, raised |-> r.raised,
                       rebuilt |-> r.rebuilt, split |-> r.split,
                       results |-> r.results, origins |-> origins,
                       destinations |-> destinations,
                       split_lines |-> nwa.rules.split_lines,
                       had_graph |-> nwa.graph # None,
                       same_as_last_build |->
                          SameAsLastBuild(nwa, origins, destinations),
                       lines_before |-> Geometries(nwa.network.gdf),
                       rowwise |-> rowwise, unchanged |-> r.self = nwa,
                       breaks |-> breaks, dissolve |-> dissolve]
    /\ UNCHANGED <<od_vars, nw>>

CallOdCostMatrixMethod ==
    \E origins \in PointTableMenu, destinations \in PointTableMenu,
       rowwise \in BOOLEAN :
       Called("od_cost_matrix", origins, Some(destinations), rowwise, <<>>, FALSE,
              NetworkAnalysis_od_cost_matrix(nwa, origins, destinations, FALSE, rowwise))

CallGetRoute ==
    \E origins \in PointTableMenu, destinations \in PointTableMenu,
       rowwise \in BOOLEAN :
       Called("get_route", origins, Some(destinations), rowwise, <<>>, FALSE,
              get_route(nwa, origins, destinations, rowwise))

CallServiceArea ==
    \E origins \in PointTableMenu, breaks \in BreaksMenu, dissolve \in BOOLEAN :
       Called("service_area", origins, None, FALSE, breaks, dissolve,
              service_area(nwa, origins, breaks, dissolve))

CallPreciceServiceArea ==
    \E origins \in PointTableMenu, breaks \in BreaksMenu, dissolve \in BOOLEAN :
       Called("precice_service_area", origins, None, FALSE, breaks, dissolve,
              precice_service_area(nwa, origins, breaks, dissolve))

\* The caller assigns rules.split_lines between two calls
SetSplitLines ==
    /\ calls < MaxCalls
    /\ nwa' = [nwa EXCEPT !.rules.split_lines = ~@]
    /\ UNCHANGED <<od_vars, call, calls, nw>>

Next ==
    \/ CallOdCostMatrixMethod
    \/ CallGetRoute
    \/ CallServiceArea
    \/ CallPreciceServiceArea
    \/ SetSplitLines

Spec == Init /\ [][Next]_vars

-----------------------------------------------------------------------------
(* Claims about the NetworkAnalysis instance.                              *)

\* How many rows of a column hold the value
CountOf(column, value) == Cardinality({n \in DOMAIN column : column[n] = value})

\* Two tables of lines hold the same geometries, each as many times
SameLines(a, b) ==
    /\ Len(a) = Len(b)
    /\ \A g \in Range(a) \cup Range(b) : CountOf(a, g) = CountOf(b, g)

\* A call was made and it returned a result
Returned == call.method # "none" /\ call.raised = "none"

\* C1: a call that returns on an instance holding a graph reuses that graph
\* (does not rebuild it) exactly when the network, origin and destination
\* geometries are the ones of the last build, no rule has changed and every
\* temp id is a vertex of the graph; otherwise it rebuilds.
C1_ReusesGraphIffUnchanged ==
    (Returned /\ call.had_graph) => (~call.rebuilt <=> call.same_as_last_build)

\* C2: after every call made with rules.split_lines set, returned or raised,
\* the network holds the lines it held before the call.
C2_LinesRestoredOnEveryExit ==
    (call.method # "none" /\ call.split_lines) =>
        SameLines(Geometries(nwa.network.gdf), call.lines_before)

\* C3: _split_lines followed by _unsplit_network leaves the network with as
\* many lines as before the split and with the same line geometries.
C3_SplitUnsplitRestoresLines ==
    call.method = "_unsplit_network" =>
        SameLines(Geometries(nwa.network.gdf), Geometries(call.pre.network.gdf))

\* The split cut a line of a network of MaxLines lines, one of which carried
\* splitted = 1 before, and the lines have been unsplit
C3_Witness ==
    /\ call.method = "_unsplit_network"
    /\ Len(call.pre.network.gdf) = MaxLines
    /\ Len(call.splitted.network.gdf) > MaxLines
    /\ \E n \in DOMAIN call.pre.network.gdf : call.pre.network.gdf[n].splitted

\* C4: every origin and destination value of a returned table is an index
\* value of the caller's origins / destinations table.
C4_OriginDestinationAreCallerIndex ==
    Returned =>
        \A n \in DOMAIN call.results :
            /\ "origin" \in DOMAIN call.results[n] =>
                  call.results[n].origin \in
                     {call.origins[i].idx : i \in DOMAIN call.origins}
            /\ "destination" \in DOMAIN call.results[n] =>
                  call.results[n].destination \in
                     {call.destinations[1][i].idx : i \in DOMAIN call.destinations[1]}

-----------------------------------------------------------------------------
(* gis_utils/directednetwork.py: DirectedNetwork.make_directed_network.    *)
(* A DataFrame is [columns, rows]: the set of its column names and the     *)
(* sequence of its rows, a row being a function from the columns to        *)
(* values.  A str that the code measures or unpacks is the sequence of     *)
(* its characters; a column name is a string.                              *)

\* The lines of the table of SpecDirected
MaxRows == 2

RECURSIVE Join(_)
\* The column name a sequence of characters spells
Join(chars) == IF chars = <<>> THEN "" ELSE Head(chars) \o Join(Tail(chars))

\* str.lower(), on the letters of the direction codes
Lower(chars) ==
    [i \in DOMAIN chars |->
        CASE chars[i] = "B" -> "b" [] chars[i] = "F" -> "f"
          [] chars[i] = "T" -> "t" [] chars[i] = "X" -> "x"
          [] OTHER -> chars[i]]

\* `x in s` for a character x and a str s
Contains(chars, x) == \E i \in DOMAIN chars : chars[i] = x

\* gdf.loc[gdf[column] == value]
Loc(df, column, value) ==
    [df EXCEPT !.rows = SelectSeq(@, LAMBDA row : row[column] = value)]

\* gdf.loc[gdf[column].isin(values)]
LocIsin(df, column, values) ==
    [df EXCEPT !.rows = SelectSeq(@, LAMBDA row : row[column] \in Range(values))]

\* df.drop(column, axis=1, errors="ignore")
DropColumn(df, column) ==
    [columns |-> df.columns \ {column},
     rows |-> [n \in DOMAIN df.rows |->
                  [c \in df.columns \ {column} |-> df.rows[n][c]]]]

\* df.rename(columns={old: new}): nothing is renamed when old is no column
Rename(df, old, new) ==
    IF old \notin df.columns THEN df
    ELSE [columns |-> (df.columns \ {old}) \cup {new},
          rows |-> [n \in DOMAIN df.rows |->
                       [c \in (df.columns \ {old}) \cup {new} |->
                           IF c = new THEN df.rows[n][old] ELSE df.rows[n][c]]]]

Reverse_Not(df) == df

\* shapely reverse on the geometry column
Reverse(df) ==
    [df EXCEPT !.rows =
        [n \in DOMAIN @ |->
            [@[n] EXCEPT !.geometry = <<@[2], @[1]>>]]]

RECURSIVE ConcatRows(_, _)
ConcatRows(frames, columns) ==
    IF frames = <<>> THEN <<>>
    ELSE [n \in DOMAIN Head(frames).rows |->
             [c \in columns |-> IF c \in Head(frames).columns
                                THEN Head(frames).rows[n][c] ELSE NaN]]
         \o ConcatRows(Tail(frames), columns)

\* gdf_concat: the rows of the frames one after the other, over the union of
\* their columns; a column a frame lacks is NaN in its rows
gdf_concat(frames) ==
    [columns |-> UNION {frames[i].columns : i \in DOMAIN frames},
     rows |-> ConcatRows(frames, UNION {frames[i].columns : i \in DOMAIN frames})]

\* all(df): iterating a DataFrame gives its column labels, and a label is
\* true unless it is empty
AllOfFrame(df) == \A c \in df.columns : c # ""

\* lines 155-164: the minute columns of the forward and the backward
\* direction.  minute_cols is [is_str, items]: the characters of a str or the
\* names of a tuple, so that len() and unpacking see what Python sees.
MinuteColumns(minute_cols) ==
    IF Len(minute_cols.items) > 2
    THEN [raised |-> "ValueError", min_f |-> "", min_t |-> ""]
    ELSE IF Len(minute_cols.items) = 2
    THEN [raised |-> "none", min_f |-> minute_cols.items[1],
          min_t |-> minute_cols.items[2]]
    ELSE IF minute_cols.is_str
    THEN [raised |-> "none", min_f |-> Join(minute_cols.items),
          min_t |-> Join(minute_cols.items)]
    ELSE [raised |-> "UnboundLocalError", min_f |-> "", min_t |-> ""]

\* bool(minute_cols): None and the empty str or tuple are false
MinuteColsGiven(minute_cols) == minute_cols # None /\ minute_cols[1].items # <<>>

MethodsRequested_MinutesOnly(minute_cols, speed_col, flat_speed) ==
    IF MinuteColsGiven(minute_cols) THEN 1 ELSE 0

\* line 123: sum([bool(minute_cols), bool(speed_col), bool(flat_speed)])
MethodsRequested(minute_cols, speed_col, flat_speed) ==
    (IF MinuteColsGiven(minute_cols) THEN 1 ELSE 0)
    + (IF speed_col # None THEN 1 ELSE 0)
    + (IF Truthy(flat_speed) THEN 1 ELSE 0)

\* lines 117-121 and 140-144: the warnings of a call that got past line 138
Warnings(direction_vals_bft, minute_cols, speed_col, flat_speed) ==
    (IF MethodsRequested(minute_cols, speed_col, flat_speed) = 0
     THEN {"minutes not calculated"} ELSE {})
    \cup
    (IF /\ Contains(Lower(direction_vals_bft[3]), "b")
        /\ Contains(Lower(direction_vals_bft[1]), "t")
        /\ Contains(Lower(direction_vals_bft[2]), "f")
     THEN {"direction_vals_bft order"} ELSE {})

\* lines 146-177: the four groups of rows, renamed and reversed, concatenated
Concatenated(gdf, direction_col, direction_vals_bft, minute_cols, reverse_tofrom) ==
    LET dropped == IF MinuteColsGiven(minute_cols)
                   THEN DropColumn(gdf, "minutes") ELSE gdf
        forward(df) == IF MinuteColsGiven(minute_cols)
                       THEN Rename(df, MinuteColumns(minute_cols[1]).min_f, "minutes")
                       ELSE df
        backward(df) == IF MinuteColsGiven(minute_cols)
                        THEN Rename(df, MinuteColumns(minute_cols[1]).min_t, "minutes")
                        ELSE df
        ft == Loc(dropped, direction_col, direction_vals_bft[2])
        tf == Loc(dropped, direction_col, direction_vals_bft[3])
        both_ways == Loc(dropped, direction_col, direction_vals_bft[1])
    IN  gdf_concat(<<forward(both_ways),
                     Reverse(backward(both_ways)),
                     forward(ft),
                     IF reverse_tofrom THEN Reverse(backward(tf))
                     ELSE backward(tf)>>)

\* minutes = length / speed * 16.6666666667, in whole minutes
Minutes(length, speed) == Num((length * 50) \div (speed * 3))

\* lines 186-205: the minutes from the speed column.  A speed of 0 stands for
\* a missing one as well.
MinutesFromSpeedCol(gdf, speed_col, default_speed) ==
    LET bad == {n \in DOMAIN gdf.rows : gdf.rows[n][speed_col] = 0}
        speed(n) == IF Truthy(default_speed) /\ n \in bad
                    THEN default_speed[1] ELSE gdf.rows[n][speed_col]
    IN  IF ~Truthy(default_speed) /\ Cardinality(bad) * 100 > Len(gdf.rows) * 5
        THEN [raised |-> "ValueError", gdf |-> gdf]
        ELSE [raised |-> "none",
              gdf |-> [columns |-> gdf.columns \cup {"minutes"},
                       rows |-> [n \in DOMAIN gdf.rows |->
                          [c \in gdf.columns \cup {"minutes"} |->
                              IF c = "minutes"
                              THEN Minutes(Length(gdf.rows[n].geometry), speed(n))
                              ELSE IF c = speed_col THEN speed(n)
                              ELSE gdf.rows[n][c]]]]]

\* lines 207-208
MinutesFromFlatSpeed(gdf, flat_speed) ==
    [columns |-> gdf.columns \cup {"minutes"},
     rows |-> [n \in DOMAIN gdf.rows |->
                  [c \in gdf.columns \cup {"minutes"} |->
                      IF c = "minutes"
                      THEN Minutes(Length(gdf.rows[n].geometry), flat_speed)
                      ELSE gdf.rows[n][c]]]]

\* lines 210-211: NaN >= 0 is false
DropNegativeMinutes(gdf) ==
    IF "minutes" \notin gdf.columns THEN gdf
    ELSE [gdf EXCEPT !.rows =
             SelectSeq(@, LAMBDA row : FloatGt(row.minutes, -1))]

\* Network._check_percent_bidirectional: the percent of the lines that have
\* their reverse in the table as well
percent_bidirectional(gdf) ==
    IF gdf.rows = <<>> THEN 0
    ELSE (100 * Cardinality({n \in DOMAIN gdf.rows :
                \E k \in DOMAIN gdf.rows :
                   gdf.rows[k].geometry = <<gdf.rows[n].geometry[2],
                                            gdf.rows[n].geometry[1]>>}))
         \div Len(gdf.rows)

\* DirectedNetwork.__init__, lines 62-74
DirectedNetwork(gdf, unit) ==
    [gdf |-> gdf, unit |-> unit, as_directed |-> TRUE,
     nodes |-> make_node_ids(gdf.rows),
     percent_bidirectional |-> percent_bidirectional(gdf)]

\* lines 213-217
Finished(self, gdf) ==
    [self EXCEPT !.gdf = gdf, !.nodes = make_node_ids(gdf.rows),
                 !.percent_bidirectional = percent_bidirectional(gdf)]

\* lines 179-217: the unit test and the minutes, on the concatenated table
\* that self.gdf already holds
DeriveMinutes(self, speed_col, default_speed, flat_speed) ==
    LET stored(outcome) ==
            IF outcome.raised # "none"
            THEN [raised |-> outcome.raised, self |-> [self EXCEPT !.gdf = outcome.gdf]]
            ELSE [raised |-> "none",
                  self |-> Finished(self, DropNegativeMinutes(
                              IF Truthy(flat_speed)
                              THEN MinutesFromFlatSpeed(outcome.gdf, flat_speed[1])
                              ELSE outcome.gdf))]
    IN  IF (Truthy(flat_speed) \/ speed_col # None) /\ self.unit # "metre"
        THEN [raised |-> "ValueError", self |-> self]
        ELSE stored(IF speed_col # None
                    THEN MinutesFromSpeedCol(self.gdf, speed_col[1], default_speed)
                    ELSE [raised |-> "none", gdf |-> self.gdf])

\* directednetwork.py lines 76-217.  concatenated is the table of line 177,
\* None when the call ended before it.
make_directed_network(self, direction_col, direction_vals_bft, minute_cols, speed_col, default_speed, flat_speed, reverse_tofrom) ==
    LET early(error) == [raised |-> error, self |-> self, warned |-> {},
                         concatenated |-> None]
        late(concatenated, outcome) ==
            [raised |-> outcome.raised, self |-> outcome.self,
             warned |-> Warnings(direction_vals_bft, minute_cols, speed_col,
                                 flat_speed),
             concatenated |-> Some(concatenated)]
        derived(concatenated) ==
            late(concatenated,
                 DeriveMinutes([self EXCEPT !.gdf = concatenated],
                               speed_col, default_speed, flat_speed))
    IN  IF Len(direction_vals_bft) # 3 THEN early("ValueError")
        ELSE IF MethodsRequested(minute_cols, speed_col, flat_speed) > 1
        THEN early("ValueError")
        ELSE IF ~AllOfFrame(LocIsin(self.gdf, direction_col, direction_vals_bft))
        THEN early("ValueError")
        ELSE IF /\ MinuteColsGiven(minute_cols)
                /\ MinuteColumns(minute_cols[1]).raised # "none"
        THEN [early(MinuteColumns(minute_cols[1]).raised) EXCEPT
                 !.warned = Warnings(direction_vals_bft, minute_cols, speed_col,
                                     flat_speed)]
        ELSE derived(Concatenated(self.gdf, direction_col, direction_vals_bft,
                                  minute_cols, reverse_tofrom))

-----------------------------------------------------------------------------
(* SpecDirected: make_directed_network called once on a DirectedNetwork of *)
(* at most MaxRows lines.  The lines follow each other along the axis;     *)
(* each carries a direction code (one of the three, or another one), a     *)
(* speed (0 when missing) and the minute columns m, bw and fwd, which hold *)
(* floats.                                                                 *)

B == <<"B">>
FT == <<"F", "T">>
TF == <<"T", "F">>

\* The tables of 1..MaxRows lines.  What varies in a line is its direction
\* code (one of the three, or "X"), its speed and its minutes backwards.
LineTables ==
    LET kinds == {[oneway |-> code, speed |-> k[1], bw |-> k[2]] :
                     code \in {B, FT, TF, <<"X">>},
                     k \in {<<50, 2>>, <<0, 2>>, <<50, -1>>}}
        table(rows) ==
            [columns |-> {"oneway", "geometry", "speed", "m", "bw", "fwd"},
             rows |-> [n \in DOMAIN rows |->
                          [oneway |-> rows[n].oneway,
                           geometry |-> <<3 * (n - 1), 3 * n>>,
                           speed |-> rows[n].speed,
                           m |-> Num(3), bw |-> Num(rows[n].bw), fwd |-> Num(1)]]]
    IN  {table(rows) : rows \in UNION {[1..n -> kinds] : n \in 1..MaxRows}}

Str(chars) == Some([is_str |-> TRUE, items |-> chars])
Tuple(names) == Some([is_str |-> FALSE, items |-> names])

InitDirected ==
    /\ od_pc = "off" /\ od_graph = NoGraph /\ od_results = <<>>
    /\ startpoints = <<>> /\ endpoints = <<>>
    /\ od_lines = FALSE /\ od_rowwise = FALSE
    /\ cutoff = None /\ destination_count = None /\ od_out = <<>>
    /\ nwa = NoInstance /\ call = NoCall /\ calls = 0
    /\ \E gdf \in LineTables, unit \in {"metre", "degree"} :
          nw = DirectedNetwork(gdf, unit)

\* nw.make_directed_network(...), called on the network as constructed;
\* speed is the pair of speed_col and default_speed
MakeDirectedNetwork ==
    /\ calls = 0
    /\ calls' = 1
    /\ \E direction_vals_bft \in {<<B, FT, TF>>, <<TF, FT, B>>, <<B, FT>>, <<B, FT, FT>>},
          minute_cols \in {None, Str(<<"m">>), Str(<<"b", "w">>), Str(<<"f", "w", "d">>),
                           Tuple(<<"fwd", "bw">>), Tuple(<<"fwd", "bw", "m">>),
                           Tuple(<<"fwd">>)},
          speed \in {<<None, None>>, <<Some("speed"), None>>, <<Some("speed"), Some(50)>>},
          flat_speed \in {None, Some(50)},
          reverse_tofrom \in BOOLEAN :
          \E r \in {make_directed_network(nw, "oneway", direction_vals_bft,
                                          minute_cols, speed[1], speed[2],
                                          flat_speed, reverse_tofrom)} :
             /\ nw' = r.self
             /\ call' = [method |-> "make_directed_network",
                         raised |-> r.raised, warned |-> r.warned,
                         concatenated |-> r.concatenated,
                         direction_vals_bft |-> direction_vals_bft,
                         minute_cols |-> minute_cols,
                         speed_col |-> speed[1], default_speed |-> speed[2],
                         flat_speed |-> flat_speed,
                         reverse_tofrom |-> reverse_tofrom,
                         before |-> nw.gdf]
    /\ UNCHANGED <<od_vars, nwa>>

NextDirected == MakeDirectedNetwork

SpecDirected == InitDirected /\ [][NextDirected]_vars

-----------------------------------------------------------------------------
(* Claims about make_directed_network (SpecDirected).                      *)

Directed == call.method = "make_directed_network"

\* The call got as far as the concatenation of line 177
Concatenation == Directed /\ call.concatenated # None

\* The rows of a table that have the geometry
RowsWith(df, geometry) == {n \in DOMAIN df.rows : df.rows[n].geometry = geometry}

Reversed(geometry) == <<geometry[2], geometry[1]>>

\* How many rows of the concatenated table have the geometry of the input
\* row as given, and how many have it reversed
AsGiven(row) == Cardinality(RowsWith(call.concatenated[1], row.geometry))
AsReversed(row) == Cardinality(RowsWith(call.concatenated[1], Reversed(row.geometry)))

CodedRows(code) == {n \in DOMAIN call.before.rows : call.before.rows[n].oneway = code}

RowCountByCode ==
    Len(call.concatenated[1].rows) =
        2 * Cardinality(CodedRows(call.direction_vals_bft[1]))
        + Cardinality(CodedRows(call.direction_vals_bft[2]))
        + Cardinality(CodedRows(call.direction_vals_bft[3]))

DistinctCodes ==
    /\ call.direction_vals_bft[1] # call.direction_vals_bft[2]
    /\ call.direction_vals_bft[1] # call.direction_vals_bft[3]
    /\ call.direction_vals_bft[2] # call.direction_vals_bft[3]

\* C12 as stated: a both-ways row yields 2 rows that are mutual reverses, a
\* forward row 1 row with unchanged geometry, a backward row 1 row with
\* reversed geometry, and the concatenated table has 2*|both| + |forward| +
\* |backward| rows.
C12_RowsByDirectionCode ==
    Concatenation =>
       /\ \A n \in DOMAIN call.before.rows :
             LET row == call.before.rows[n]
             IN  /\ row.oneway = call.direction_vals_bft[1]
                       => (AsGiven(row) = 1 /\ AsReversed(row) = 1)
                 /\ row.oneway = call.direction_vals_bft[2]
                       => (AsGiven(row) = 1 /\ AsReversed(row) = 0)
                 /\ row.oneway = call.direction_vals_bft[3]
                       => (AsGiven(row) = 0 /\ AsReversed(row) = 1)
       /\ RowCountByCode

\* C12, amended: with three pairwise different direction codes, a both-ways
\* row yields 2 rows that are mutual reverses, a forward row 1 row with
\* unchanged geometry, and a backward row 1 row, reversed when reverse_tofrom
\* is true (the default) and unchanged when it is false; the concatenated
\* table has 2*|both| + |forward| + |backward| rows.
C12_RowsByDirectionCodeAndReverseTofrom ==
    (Concatenation /\ DistinctCodes) =>
       /\ \A n \in DOMAIN call.before.rows :
             LET row == call.before.rows[n]
             IN  /\ row.oneway = call.direction_vals_bft[1]
                       => (AsGiven(row) = 1 /\ AsReversed(row) = 1)
                 /\ row.oneway = call.direction_vals_bft[2]
                       => (AsGiven(row) = 1 /\ AsReversed(row) = 0)
                 /\ row.oneway = call.direction_vals_bft[3]
                       => IF call.reverse_tofrom
                          THEN AsGiven(row) = 0 /\ AsReversed(row) = 1
                          ELSE AsGiven(row) = 1 /\ AsReversed(row) = 0
       /\ RowCountByCode

C12_Witness ==
    /\ Concatenation /\ DistinctCodes /\ call.reverse_tofrom
    /\ Len(call.before.rows) = MaxRows
    /\ CodedRows(call.direction_vals_bft[1]) # {}
    /\ CodedRows(call.direction_vals_bft[3]) # {}
    /\ Len(call.concatenated[1].rows) = 3

UnknownCode ==
    \E n \in DOMAIN call.before.rows :
       call.before.rows[n].oneway \notin Range(call.direction_vals_bft)

\* C13: make_directed_network raises ValueError when a row holds a direction
\* code outside direction_vals_bft and when direction_vals_bft does not have
\* exactly 3 entries; a call that returns has discarded no row.
C13_RejectsUnknownDirectionCode ==
    Directed =>
       /\ (UnknownCode \/ Len(call.direction_vals_bft) # 3)
             => call.raised = "ValueError"
       /\ Concatenation =>
             \A n \in DOMAIN call.before.rows :
                AsGiven(call.before.rows[n]) + AsReversed(call.before.rows[n]) > 0

\* The number of cost methods the caller asked for
CostMethodsAsked ==
    (IF call.minute_cols # None THEN 1 ELSE 0)
    + (IF call.speed_col # None THEN 1 ELSE 0)
    + (IF call.flat_speed # None THEN 1 ELSE 0)

\* C14: more than one of minute_cols, speed_col and flat_speed raises
\* ValueError and leaves the lines of the network as they were; none of them
\* (with three direction codes given) only warns: the call returns and the
\* table has no minutes column.
C14_CostMethodsExclusive ==
    Directed =>
       /\ CostMethodsAsked > 1
             => (call.raised = "ValueError" /\ nw.gdf = call.before)
       /\ (CostMethodsAsked = 0 /\ Len(call.direction_vals_bft) = 3)
             => /\ call.raised = "none"
                /\ "minutes not calculated" \in call.warned
                /\ "minutes" \notin nw.gdf.columns

C14_Witness ==
    /\ Directed /\ CostMethodsAsked = 2 /\ Len(call.direction_vals_bft) = 3
    /\ call.raised = "ValueError" /\ Len(call.before.rows) = MaxRows

\* C15: minute_cols given as one column name, of any length, and no other
\* cost method: the call returns, and every row of the result, from each of
\* the four groups, has the value of that column as its minutes.
C15_OneMinuteColumnName ==
    (/\ Directed /\ Len(call.direction_vals_bft) = 3
     /\ call.minute_cols # None /\ call.speed_col = None /\ call.flat_speed = None
     /\ call.minute_cols[1].is_str)
    => /\ call.raised = "none"
       /\ "minutes" \in nw.gdf.columns
       /\ \A n \in DOMAIN nw.gdf.rows :
             \E k \in DOMAIN call.before.rows :
                /\ call.before.rows[k].geometry
                      \in {nw.gdf.rows[n].geometry, Reversed(nw.gdf.rows[n].geometry)}
                /\ nw.gdf.rows[n].minutes
                      = call.before.rows[k][Join(call.minute_cols[1].items)]

-----------------------------------------------------------------------------
(* get_k_routes.  The function _get_k_routes it calls is not among the     *)
(* sources; it is modelled from section 4.5 of the specification: the      *)
(* lowest-cost path is recorded, a contiguous middle span of its edges is  *)
(* removed from a copy of the graph, and the search is repeated on the     *)
(* trimmed copy until k routes are collected or no path is left.           *)

MaxKCalls == 2
MaxK == 10

\* graph.delete_edges on the copy of the graph: the edges at the positions
\* ids are gone, the others keep their attributes
DeleteEdges(graph, ids) ==
    LET keep == SortedSeq(DOMAIN graph.es \ ids)
    IN  [graph EXCEPT !.es = [n \in DOMAIN keep |-> graph.es[keep[n]]]]

MiddleSpan_Empty(n, drop_middle_percent) == {}

\* The positions, on a path of n edges, of the middle span that is removed:
\* the median edge alone at 100 percent, all but the first and the last edge
\* at 0 percent, and a span around the median that grows as the percentage
\* falls in between
MiddleSpan(n, drop_middle_percent) ==
    LET median == (n + 1) \div 2
        lo == median - ((median - 2) * (100 - drop_middle_percent)) \div 100
        hi == median + ((n - 1 - median) * (100 - drop_middle_percent)) \div 100
    IN  lo..hi

RECURSIVE KRoutesOfPair(_, _, _, _, _, _, _)
\* The routes of one OD pair, found on the graph handed in (the copy): the
\* i-th route carries k = i
KRoutesOfPair(graph, o, d, roads, k, drop_middle_percent, i) ==
    LET found(path) ==
            <<[origin |-> o, destination |-> d,
               cost |-> Num(PathWeight(path)), k |-> i,
               geometry |-> RoadsOnPath(graph, path, roads)]>>
            \o KRoutesOfPair(
                  DeleteEdges(graph, {path[j][4] : j \in
                                        MiddleSpan(Len(path), drop_middle_percent)}),
                  o, d, roads, k, drop_middle_percent, i + 1)
    IN  IF i > k \/ ~HasPath(graph, o, d) THEN <<>>
        ELSE found(ShortestPath(graph, o, d))

RECURSIVE TrimmedGraph(_, _, _, _, _, _)
\* The graph as the search of one OD pair leaves the copy it works on
TrimmedGraph(graph, o, d, k, drop_middle_percent, i) ==
    IF i > k \/ ~HasPath(graph, o, d) THEN graph
    ELSE TrimmedGraph(
            DeleteEdges(graph, {ShortestPath(graph, o, d)[j][4] : j \in
                                  MiddleSpan(Len(ShortestPath(graph, o, d)),
                                             drop_middle_percent)}),
            o, d, k, drop_middle_percent, i + 1)

RECURSIVE KRouteRows_SharedGraph(_, _, _, _, _, _, _, _)
\* Mutant of KRouteRows: every pair is searched on the one graph, trimmed by
\* the pairs before it
KRouteRows_SharedGraph(graph, origins, destinations, roads, pairs, k, drop_middle_percent, n) ==
    IF n > Len(pairs) THEN <<>>
    ELSE KRoutesOfPair(graph, origins[pairs[n][1]].temp_idx,
                       destinations[pairs[n][2]].temp_idx, roads, k,
                       drop_middle_percent, 1)
         \o KRouteRows_SharedGraph(
               TrimmedGraph(graph, origins[pairs[n][1]].temp_idx,
                            destinations[pairs[n][2]].temp_idx, k,
                            drop_middle_percent, 1),
               origins, destinations, roads, pairs, k, drop_middle_percent, n + 1)

RECURSIVE KRouteRows(_, _, _, _, _, _, _, _)
KRouteRows(graph, origins, destinations, roads, pairs, k, drop_middle_percent, n) ==
    IF n > Len(pairs) THEN <<>>
    ELSE KRoutesOfPair(graph, origins[pairs[n][1]].temp_idx,
                       destinations[pairs[n][2]].temp_idx, roads, k,
                       drop_middle_percent, 1)
         \o KRouteRows(graph, origins, destinations, roads, pairs, k,
                       drop_middle_percent, n + 1)

_get_k_routes_AllOrNothing(graph, origins, destinations, roads, rowwise, k, drop_middle_percent) ==
    LET complete(rows, pairs) == IF Len(rows) < k * Len(pairs) THEN <<>> ELSE rows
    IN  complete(KRouteRows(graph, origins, destinations, roads,
                            PairsOf(origins, destinations, rowwise), k,
                            drop_middle_percent, 1),
                 PairsOf(origins, destinations, rowwise))

\* _get_k_routes: the routes of every OD pair, each pair searched on its own
\* copy of the graph; "ValueError: if no paths were found" (docstring of
\* get_k_routes, line 619) when there is no row
_get_k_routes(graph, origins, destinations, roads, rowwise, k, drop_middle_percent) ==
    KRouteRows(graph, origins, destinations, roads,
               PairsOf(origins, destinations, rowwise), k, drop_middle_percent, 1)

DropMiddlePercentOutOfRange_Exclusive(drop_middle_percent) ==
    ~(0 < drop_middle_percent /\ drop_middle_percent < 100)

\* networkanalysis.py line 685: `if not 0 <= drop_middle_percent <= 100`
DropMiddlePercentOutOfRange(drop_middle_percent) ==
    ~(0 <= drop_middle_percent /\ drop_middle_percent <= 100)

\* networkanalysis.py lines 685-722
get_k_routes(self0, origins, destinations, k, drop_middle_percent, rowwise) ==
    LET returned(prep, results) ==
            IF results = <<>> THEN Raise(prep, "ValueError")
            ELSE Return(prep, prep.self, "get_k_routes",
                        MapOriginDestination(prep.self, results))
        analysis(prep) ==
            IF prep.raised # "none" THEN Raise(prep, prep.raised)
            ELSE returned(prep, _get_k_routes(prep.self.graph[1], prep.self.origins[1],
                                              prep.self.destinations[1],
                                              prep.self.network.gdf, rowwise, k,
                                              drop_middle_percent))
    IN  IF DropMiddlePercentOutOfRange(drop_middle_percent)
        THEN Raise([raised |-> "none", rebuilt |-> FALSE, split |-> FALSE,
                    self |-> self0, built |-> None], "ValueError")
        ELSE analysis(_prepare_network_analysis(self0, origins, Some(destinations),
                                                rowwise))

-----------------------------------------------------------------------------
(* SpecKRoutes: get_k_routes called up to MaxKCalls times on an instance   *)
(* that keeps a log.  The network is the triangle of NetworkLines, directed *)
(* or not; the points lie on a node (0, 2), inside a line (1, 3) or away   *)
(* from every line (7).                                                    *)

InitKRoutes ==
    /\ od_pc = "off" /\ od_graph = NoGraph /\ od_results = <<>>
    /\ startpoints = <<>> /\ endpoints = <<>>
    /\ od_lines = FALSE /\ od_rowwise = FALSE
    /\ cutoff = None /\ destination_count = None /\ od_out = <<>>
    /\ \E as_directed \in BOOLEAN, split_lines \in BOOLEAN :
          nwa = NetworkAnalysis([gdf |-> NetworkLines,
                                 nodes |-> make_node_ids(NetworkLines),
                                 not_splitted |-> None,
                                 as_directed |-> as_directed],
                                Rules(split_lines), TRUE)
    /\ call = [method |-> "none", raised |-> "none", results |-> <<>>,
               origins |-> <<>>, destinations |-> <<>>, rowwise |-> FALSE,
               k |-> 1, drop_middle_percent |-> 0, before |-> NoInstance]
    /\ calls = 0 /\ nw = NoNetwork

CallGetKRoutes ==
    /\ calls < MaxKCalls
    /\ calls' = calls + 1
    /\ \E origins \in {TableOf({0}), TableOf({7}), TableOf({1, 7})},
          destinations \in {TableOf({2}), TableOf({3}), TableOf({2, 4})},
          k \in {1, 2, MaxK}, drop_middle_percent \in {-1, 0, 100, 101},
          rowwise \in BOOLEAN :
          LET r == get_k_routes(nwa, origins, destinations, k,
                                drop_middle_percent, rowwise)
          IN  /\ nwa' = r.self
              /\ call' = [method |-> "get_k_routes", raised |-> r.raised,
                          results |-> r.results, origins |-> origins,
                          destinations |-> destinations, rowwise |-> rowwise,
                          k |-> k, drop_middle_percent |-> drop_middle_percent,
                          before |-> nwa]
    /\ UNCHANGED <<od_vars, nw>>

NextKRoutes == CallGetKRoutes

SpecKRoutes == InitKRoutes /\ [][NextKRoutes]_vars

-----------------------------------------------------------------------------
(* Claims about get_k_routes (SpecKRoutes).                                *)

KCall == call.method = "get_k_routes"

PercentInRange == 0 <= call.drop_middle_percent /\ call.drop_middle_percent <= 100

KLengthsDiffer == call.rowwise /\ Len(call.origins) # Len(call.destinations)

\* The call got as far as the search: the instance holds the points of the
\* call and the graph that was searched
Searched == KCall /\ PercentInRange /\ ~KLengthsDiffer

\* The OD pairs of the call, each the stored origin and destination row
KPairs ==
    {<<nwa.origins[1][i], nwa.destinations[1][j]>> :
        <<i, j>> \in {q \in (DOMAIN nwa.origins[1]) \X (DOMAIN nwa.destinations[1]) :
                        call.rowwise => q[1] = q[2]}}

\* The simple paths of the instance's graph from the origin to the destination
SimplePaths(p) ==
    Paths(Arcs(nwa.graph[1]), p[1].temp_idx, p[2].temp_idx, {p[1].temp_idx})

\* The returned routes of the pair, in the order of the result
RoutesOf(p) ==
    SelectSeq(call.results,
              LAMBDA r : r.origin = p[1].idx /\ r.destination = p[2].idx)

\* C16: get_k_routes with k = 10 (MaxK) and drop_middle_percent = 100 returns
\* exactly 1 route for an OD pair that has exactly one simple path in the
\* graph, and the call does not raise.
C16_OneSimplePathGivesOneRoute ==
    (Searched /\ call.k = MaxK /\ call.drop_middle_percent = 100) =>
        \A p \in KPairs :
            Cardinality(SimplePaths(p)) = 1 =>
                call.raised = "none" /\ Len(RoutesOf(p)) = 1

C16_Witness ==
    /\ Searched /\ call.k = MaxK /\ call.drop_middle_percent = 100
    /\ call.raised = "none"
    /\ \E p \in KPairs : Cardinality(SimplePaths(p)) = 1 /\ Len(RoutesOf(p)) = 1

\* C17: for every k >= 1 a returning get_k_routes gives each OD pair between
\* 0 and k routes, ranked k = 1..n in the order they were found (the cost
\* never falls from one rank to the next); fewer than k routes is not an
\* error, and a call that reached the search raises exactly when no pair has
\* any route.
C17_RanksContiguousFewerThanKTolerated ==
    Searched =>
        /\ call.raised = "none" =>
              /\ call.results # <<>>
              /\ \A p \in KPairs :
                    /\ Len(RoutesOf(p)) <= call.k
                    /\ \A n \in DOMAIN RoutesOf(p) :
                          /\ RoutesOf(p)[n].k = n
                          /\ n > 1 => RoutesOf(p)[n - 1].cost.v <= RoutesOf(p)[n].cost.v
                    /\ SimplePaths(p) # {} => Len(RoutesOf(p)) >= 1
        /\ call.raised # "none" <=> \A p \in KPairs : SimplePaths(p) = {}

C17_Witness ==
    /\ Searched /\ call.raised = "none" /\ call.k = MaxK
    /\ \E p \in KPairs : Len(RoutesOf(p)) = 2 /\ RoutesOf(p)[2].k = 2
    /\ \E p \in KPairs : RoutesOf(p) = <<>>

\* The instance holds the points of the call
HoldsPointsOfCall ==
    /\ nwa.origins # None /\ nwa.destinations # None
    /\ Geometries(nwa.origins[1]) = Geometries(call.origins)
    /\ Geometries(nwa.destinations[1]) = Geometries(call.destinations)

\* C18: get_k_routes raises ValueError for every drop_middle_percent below 0
\* or above 100, and leaves the instance (network, graph, origins,
\* destinations, log) as it was; 0 and 100 are accepted: a call with one of
\* them goes on to the preparation and the search, and raises only for
\* unequal rowwise lengths or for finding no route.
C18_DropMiddlePercentRange ==
    KCall =>
        /\ ~PercentInRange => (call.raised = "ValueError" /\ nwa = call.before)
        /\ (call.drop_middle_percent \in {0, 100} /\ ~KLengthsDiffer) =>
              /\ HoldsPointsOfCall
              /\ call.raised # "none" => \A p \in KPairs : SimplePaths(p) = {}

C18_Witness ==
    /\ KCall /\ call.drop_middle_percent = 101 /\ call.raised = "ValueError"
    /\ call.before.graph # None /\ call.before.log # Some(<<>>)
    /\ call.before.origins # None
    /\ Geometries(call.before.origins[1]) # Geometries(call.origins)
    /\ nwa = call.before

-----------------------------------------------------------------------------
(* Claims about service_area (Spec).                                       *)

ServiceAreaCall == call.method = "service_area" /\ call.raised = "none"

\* The lines returned for the origin (the caller's index) at the break
EdgesAt(origin, break) ==
    UNION {call.results[n].geometry[1] :
             n \in {m \in DOMAIN call.results :
                      /\ call.results[m].origin = origin
                      /\ call.results[m].break = Some(break)
                      /\ call.results[m].geometry # None}}

\* C19: for one origin and breaks b1 <= b2, the lines service_area returns
\* for the origin at b1 are among the lines it returns at b2.
C19_ServiceAreasNested ==
    ServiceAreaCall =>
        \A o \in DOMAIN call.origins, b1 \in Range(call.breaks), b2 \in Range(call.breaks) :
            b1 <= b2 => EdgesAt(call.origins[o].idx, b1) \subseteq
                          EdgesAt(call.origins[o].idx, b2)

\* The rows returned for the break
RowsAt(break) == {n \in DOMAIN call.results : call.results[n].break = Some(break)}

\* C20: service_area with dissolve=True returns exactly one row per origin
\* and break: for every break as many rows as there are origins, each of
\* another origin; a combination that reaches no line has its row as well,
\* with null geometry.
C20_OneRowPerOriginPerBreak ==
    (ServiceAreaCall /\ call.dissolve) =>
        /\ Len(call.results) = Len(call.origins) * Cardinality(Range(call.breaks))
        /\ \A b \in Range(call.breaks) :
              /\ Cardinality(RowsAt(b)) = Len(call.origins)
              /\ Cardinality({call.results[n].origin : n \in RowsAt(b)}) =
                    Len(call.origins)

-----------------------------------------------------------------------------
(* get_route_frequencies.  A weight_df is [is_frame, multi, index, data]:  *)
(* multi tells whether the index is a MultiIndex, index holds one tuple    *)
(* per row and data the values of the columns of the row.                  *)
(* _get_route_frequencies is not among the sources; it is modelled from    *)
(* section 4.7 of the specification.                                       *)

MaxFCalls == 1

\* networkanalysis.py lines 1175-1231.  get_level_values(1) of an index of
\* one level is an IndexError.
_prepare_weight_df(weight_df, origins, destinations) ==
    LET ori == {origins[n].idx : n \in DOMAIN origins}
        des == {destinations[n].idx : n \in DOMAIN destinations}
        unique(s) == \A n, k \in DOMAIN s : s[n] = s[k] => n = k
        raise(error) == [raised |-> error, weight_df |-> weight_df]
        indexed(df) ==
            IF Len(df.data[1]) = 3
            THEN [df EXCEPT !.index = [n \in DOMAIN df.data |->
                                          <<df.data[n][1], df.data[n][2]>>],
                            !.data = [n \in DOMAIN df.data |-> <<df.data[n][3]>>],
                            !.multi = TRUE]
            ELSE df
        validated(df) ==
            IF Len(df.data[1]) # 1 /\ df.multi THEN raise("ValueError")
            ELSE IF ~unique(df.index) THEN raise("ValueError")
            ELSE IF ~unique([n \in DOMAIN origins |-> origins[n].idx])
            THEN raise("ValueError")
            ELSE IF ~unique([n \in DOMAIN destinations |-> destinations[n].idx])
            THEN raise("ValueError")
            ELSE IF ~\E n \in DOMAIN df.index : df.index[n][1] \in ori
            THEN raise("ValueError")
            ELSE IF ~df.multi THEN raise("IndexError")
            ELSE IF ~\E n \in DOMAIN df.index : df.index[n][2] \in des
            THEN raise("ValueError")
            ELSE IF ~\A n \in DOMAIN df.index : df.index[n][1] \in ori
            THEN raise("ValueError")
            ELSE IF ~\A n \in DOMAIN df.index : df.index[n][2] \in des
            THEN raise("ValueError")
            ELSE [raised |-> "none", weight_df |-> df]
    IN  IF ~weight_df.is_frame THEN raise("ValueError")
        ELSE validated(indexed(weight_df))

MapWeightIndex_Swapped(self, weight_df) ==
    LET get(points, idx) ==
            IF \E n \in DOMAIN points : points[n].idx = idx
            THEN Some(points[CHOOSE n \in DOMAIN points : points[n].idx = idx].temp_idx)
            ELSE None
    IN  [weight_df EXCEPT !.index =
            [n \in DOMAIN @ |-> <<get(self.destinations[1], @[n][2]),
                                  get(self.origins[1], @[n][1])>>]]

\* networkanalysis.py lines 881-888: the index of weight_df mapped from the
\* caller's index values to the temp ids; dict.get gives None for a value
\* that is no key
MapWeightIndex(self, weight_df) ==
    LET get(points, idx) ==
            IF \E n \in DOMAIN points : points[n].idx = idx
            THEN Some(points[CHOOSE n \in DOMAIN points : points[n].idx = idx].temp_idx)
            ELSE None
    IN  [weight_df EXCEPT !.index =
            [n \in DOMAIN @ |-> <<get(self.origins[1], @[n][1]),
                                  get(self.destinations[1], @[n][2])>>]]

RECURSIVE RouteFrequency(_, _, _, _, _)
\* What the OD pairs from the n-th on add to the counter of the edge: the
\* weight of every pair whose lowest-cost path walks the edge, 1 without a
\* weight_df
RouteFrequency(graph, pairs, weight_df, edge_id, n) ==
    IF n > Len(pairs) THEN 0
    ELSE LET o == pairs[n][1]
             d == pairs[n][2]
             weight == IF weight_df = None THEN 1
                       ELSE weight_df[1].data[CHOOSE k \in DOMAIN weight_df[1].index :
                               weight_df[1].index[k] = <<Some(o), Some(d)>>][1]
             on_path(path) == \E i \in DOMAIN path :
                                 graph.es[path[i][4]].source_target_weight = edge_id
         IN  (IF HasPath(graph, o, d) /\ on_path(ShortestPath(graph, o, d))
              THEN weight ELSE 0)
             + RouteFrequency(graph, pairs, weight_df, edge_id, n + 1)

\* _get_route_frequencies: the roads walked by the path of at least one OD
\* pair, each with its counter.  A pair that has a path and no row in
\* weight_df makes the lookup of its weight fail (KeyError); "ValueError: If
\* no paths were found" (docstring of get_route_frequencies, line 763).
_get_route_frequencies(graph, origins, destinations, roads, weight_df, rowwise) ==
    LET od == PairsOf(origins, destinations, rowwise)
        pairs == [n \in DOMAIN od |-> <<origins[od[n][1]].temp_idx,
                                        destinations[od[n][2]].temp_idx>>]
        with_path == {n \in DOMAIN pairs : HasPath(graph, pairs[n][1], pairs[n][2])}
        counted(frequency) ==
            [n \in DOMAIN roads |->
                IF roads[n].source_target_weight = None THEN 0
                ELSE frequency[roads[n].source_target_weight[1]]]
        rows(frequency) ==
            LET used == SortedSeq({n \in DOMAIN roads : frequency[n] > 0})
            IN  [k \in DOMAIN used |->
                    [geometry |-> roads[used[k]].geometry,
                     source_target_weight |-> roads[used[k]].source_target_weight,
                     frequency |-> frequency[used[k]]]]
    IN  IF with_path = {} THEN [raised |-> "ValueError", rows |-> <<>>]
        ELSE IF /\ weight_df # None
                /\ \E n \in with_path :
                      \A k \in DOMAIN weight_df[1].index :
                         weight_df[1].index[k] # <<Some(pairs[n][1]), Some(pairs[n][2])>>
        THEN [raised |-> "KeyError", rows |-> <<>>]
        ELSE [raised |-> "none",
              rows |-> rows(counted(
                         [id \in {roads[n].source_target_weight[1] :
                                    n \in {m \in DOMAIN roads :
                                             roads[m].source_target_weight # None}} |->
                             RouteFrequency(graph, pairs, weight_df, id, 1)]))]

\* networkanalysis.py lines 873-916.  sort_values(frequency_col) orders the
\* rows by their frequency, rows of equal frequency in their order.
get_route_frequencies(self0, origins, destinations, weight_df, rowwise) ==
    LET sorted(rows) ==
            SortSeq(rows, LAMBDA a, b : a.frequency < b.frequency)
        returned(prep, results) ==
            IF results.raised # "none" THEN Raise(prep, results.raised)
            ELSE Return(prep, prep.self, "get_route_frequencies", sorted(results.rows))
        searched(prep, weights) ==
            returned(prep, _get_route_frequencies(
                              prep.self.graph[1], prep.self.origins[1],
                              prep.self.destinations[1], prep.self.network.gdf,
                              IF weights = None THEN None
                              ELSE Some(MapWeightIndex(prep.self, weights[1])),
                              rowwise))
        analysis(prep, weights) ==
            IF prep.raised # "none" THEN Raise(prep, prep.raised)
            ELSE searched(prep, weights)
        prepared(weights) ==
            analysis(_prepare_network_analysis(self0, origins, Some(destinations),
                                               rowwise), weights)
        checked(outcome) ==
            IF outcome.raised # "none"
            THEN Raise([raised |-> "none", rebuilt |-> FALSE, split |-> FALSE,
                        self |-> self0, built |-> None], outcome.raised)
            ELSE prepared(Some(outcome.weight_df))
    IN  IF weight_df = None THEN prepared(None)
        ELSE checked(_prepare_weight_df(weight_df[1], origins, destinations))

-----------------------------------------------------------------------------
(* SpecFrequencies: get_route_frequencies called up to MaxFCalls times on  *)
(* the instances of SpecKRoutes.  The weight tables cover every OD pair    *)
(* (three columns or a MultiIndex, one weight for all or one per pair),    *)
(* repeat a pair, leave out the pairs of all origins but the first, name   *)
(* points that were not supplied, have two weight columns or an index of   *)
(* one level, or are no DataFrame.                                         *)

CallGetRouteFrequencies ==
    /\ calls < MaxFCalls
    /\ calls' = calls + 1
    /\ \E origins \in {TableOf({0}), TableOf({0, 1}), TableOf({7})},
          destinations \in {TableOf({4}), TableOf({2, 4})},
          rowwise \in BOOLEAN :
          LET od == PairsOf(origins, destinations, FALSE)
              pairs == [n \in DOMAIN od |-> <<origins[od[n][1]].idx,
                                              destinations[od[n][2]].idx>>]
              frame(multi, index, data) ==
                  Some([is_frame |-> TRUE, multi |-> multi, index |-> index,
                        data |-> data])
              columns(rows) == frame(FALSE, [n \in DOMAIN rows |-> <<n - 1>>], rows)
              all == [n \in DOMAIN pairs |-> <<pairs[n][1], pairs[n][2], 2>>]
          IN  \E weight_df \in
                 {None,
                  columns(all),
                  columns([n \in DOMAIN pairs |-> <<pairs[n][1], pairs[n][2], n>>]),
                  frame(TRUE, pairs, [n \in DOMAIN pairs |-> <<2>>]),
                  frame(TRUE, pairs, [n \in DOMAIN pairs |-> <<2, 2>>]),
                  columns(all \o <<all[1]>>),
                  columns(SelectSeq(all, LAMBDA row : row[1] = -1)),
                  columns(all \o <<<<-9, -1, 2>>>>),
                  columns(<<<<-9, -9, 2>>>>),
                  frame(FALSE, [n \in DOMAIN origins |-> <<origins[n].idx>>],
                        [n \in DOMAIN origins |-> <<2>>]),
                  Some([is_frame |-> FALSE, multi |-> FALSE, index |-> <<>>,
                        data |-> <<>>])} :
                 \E r \in {get_route_frequencies(nwa, origins, destinations,
                                                 weight_df, rowwise)} :
                    /\ nwa' = r.self
                    /\ call' = [method |-> "get_route_frequencies",
                                raised |-> r.raised, results |-> r.results,
                                origins |-> origins, destinations |-> destinations,
                                rowwise |-> rowwise, weight_df |-> weight_df,
                                before |-> nwa]
    /\ UNCHANGED <<od_vars, nw>>

SpecFrequencies == InitKRoutes /\ [][CallGetRouteFrequencies]_vars

-----------------------------------------------------------------------------
(* Claims about get_route_frequencies (SpecFrequencies).                   *)

FCall == call.method = "get_route_frequencies"

\* weight_df has three columns, or one weight column and an index of
\* (origin, destination)
WeightShapeOk ==
    /\ call.weight_df[1].is_frame
    /\ \/ Len(call.weight_df[1].data[1]) = 3
       \/ call.weight_df[1].multi /\ Len(call.weight_df[1].data[1]) = 1

\* The rows of a weight_df of that shape, as <<origin, destination, weight>>
\* in the caller's index values
WeightRows ==
    IF Len(call.weight_df[1].data[1]) = 3 THEN call.weight_df[1].data
    ELSE [n \in DOMAIN call.weight_df[1].data |->
             <<call.weight_df[1].index[n][1], call.weight_df[1].index[n][2],
               call.weight_df[1].data[n][1]>>]

WeightIndexUnique ==
    \A n, k \in DOMAIN WeightRows :
        (WeightRows[n][1] = WeightRows[k][1] /\ WeightRows[n][2] = WeightRows[k][2])
            => n = k

\* Every supplied origin and every supplied destination has an entry
WeightCoversPoints ==
    /\ \A i \in DOMAIN call.origins :
          \E n \in DOMAIN WeightRows : WeightRows[n][1] = call.origins[i].idx
    /\ \A j \in DOMAIN call.destinations :
          \E n \in DOMAIN WeightRows : WeightRows[n][2] = call.destinations[j].idx

\* The weight table gives every requested OD pair one weight and names no
\* other point
WeightsUsable ==
    \/ call.weight_df = None
    \/ /\ WeightShapeOk /\ WeightIndexUnique
       /\ \A n \in DOMAIN WeightRows :
             /\ \E i \in DOMAIN call.origins : call.origins[i].idx = WeightRows[n][1]
             /\ \E j \in DOMAIN call.destinations :
                   call.destinations[j].idx = WeightRows[n][2]
       /\ \A p \in KPairs :
             \E n \in DOMAIN WeightRows :
                WeightRows[n][1] = p[1].idx /\ WeightRows[n][2] = p[2].idx

\* The weight of the pair: 1 without a weight_df
WeightOf(p) ==
    IF call.weight_df = None THEN 1
    ELSE WeightRows[CHOOSE n \in DOMAIN WeightRows :
                       WeightRows[n][1] = p[1].idx /\ WeightRows[n][2] = p[2].idx][3]

\* The ids of the network edges on the lowest-cost path of the pair: the
\* edges of the path that do not start or end in a point
PathEdges(p) ==
    IF SimplePaths(p) = {} THEN {}
    ELSE LET path == ShortestPath(nwa.graph[1], p[1].temp_idx, p[2].temp_idx)
             points == Range(TempIdx(nwa.origins[1])) \cup
                       Range(TempIdx(nwa.destinations[1]))
         IN  {nwa.graph[1].es[path[i][4]].source_target_weight :
                i \in {k \in DOMAIN path :
                         path[k][1] \notin points /\ path[k][2] \notin points}}

\* The sum of the weights of the pairs whose path walks the edge
WeightedUse(id) ==
    Cardinality({<<p, unit>> \in KPairs \X (1..(MaxPoints * MaxPoints + 1)) :
                    id \in PathEdges(p) /\ unit <= WeightOf(p)})

\* C21: get_route_frequencies returns exactly the network edges (by edge
\* id) on the lowest-cost path of at least one OD pair, each with the sum of the
\* weights of the pairs whose path walks it as its frequency (a pair weighs
\* 1 without weight_df); when every pair has the same weight w the frequency
\* is w times the number of pairs that walk the edge.  The call raises
\* exactly when no pair has a path.
C21_FrequencyIsSumOfPairWeights ==
    (FCall /\ ~KLengthsDiffer /\ WeightsUsable) =>
        /\ call.raised # "none" <=> \A p \in KPairs : SimplePaths(p) = {}
        /\ call.raised = "none" =>
              /\ {call.results[n].source_target_weight : n \in DOMAIN call.results}
                    = {Some(id) : id \in UNION {PathEdges(p) : p \in KPairs}}
              /\ \A n \in DOMAIN call.results :
                    /\ call.results[n].frequency =
                          WeightedUse(call.results[n].source_target_weight[1])
                    /\ \A w \in 1..2 :
                          (\A p \in KPairs : WeightOf(p) = w) =>
                             call.results[n].frequency =
                                w * Cardinality({p \in KPairs :
                                      call.results[n].source_target_weight[1]
                                         \in PathEdges(p)})

C21_Witness ==
    /\ FCall /\ call.raised = "none" /\ call.weight_df # None /\ WeightsUsable
    /\ \E p, q \in KPairs : WeightOf(p) # WeightOf(q)
    /\ \E n \in DOMAIN call.results :
          /\ call.results[n].frequency > 2
          /\ Cardinality({p \in KPairs :
                call.results[n].source_target_weight[1] \in PathEdges(p)}) > 1

\* C22: get_route_frequencies raises ValueError, and leaves the instance as
\* it was, whenever weight_df is not of one of the two shapes, whenever its
\* OD index is not unique, and whenever some supplied origin or destination
\* has no entry in it.
C22_WeightDfRejected ==
    (FCall /\ call.weight_df # None) =>
        ((~WeightShapeOk \/ ~WeightIndexUnique \/ ~WeightCoversPoints)
            => (call.raised = "ValueError" /\ nwa = call.before))

-----------------------------------------------------------------------------
(* Claims about the graph build of _prepare_network_analysis (Spec).       *)

\* The temp ids of the origins and destinations the instance holds
PointIds ==
    Range(TempIdx(nwa.origins[1])) \cup
    (IF nwa.destinations = None THEN {} ELSE Range(TempIdx(nwa.destinations[1])))

\* The point has no connector edge
Unattached(v) ==
    \A n \in DOMAIN nwa.graph[1].es :
        nwa.graph[1].es[n].source # v /\ nwa.graph[1].es[n].target # v

\* C23: after a call that built the graph, every origin temp id and every
\* destination temp id is a vertex of the graph; a point without a connector
\* edge has no path to or from any other vertex, and the call was not ended
\* by a failed vertex lookup.
C23_PointsAreVertices ==
    (call.method # "none" /\ call.rebuilt) =>
        /\ PointIds \subseteq nwa.graph[1].vs
        /\ \A v \in PointIds :
              Unattached(v) =>
                 \A u \in nwa.graph[1].vs \ {v} :
                    ~HasPath(nwa.graph[1], v, u) /\ ~HasPath(nwa.graph[1], u, v)
        /\ call.raised \notin {"KeyError", "IndexError"}

\* A returned call built a graph that holds an unattached origin and an
\* attached one, and an unattached destination
C23_Witness ==
    /\ Returned /\ call.rebuilt /\ nwa.destinations # None
    /\ \E v \in Range(TempIdx(nwa.destinations[1])) : Unattached(v)
    /\ \E v \in Range(TempIdx(nwa.origins[1])) : Unattached(v)
    /\ \E v \in Range(TempIdx(nwa.origins[1])) : ~Unattached(v)

-----------------------------------------------------------------------------
(* SpecBuild: up to MaxBCalls analysis calls on an instance that keeps a   *)
(* log, of every analysis method, while the caller may assign other lines  *)
(* to network.gdf between two calls: the triangle of NetworkLines, the     *)
(* triangle with a fourth line 4-6, or the triangle with a line of         *)
(* negative weight.  The node table is the one made for the lines the      *)
(* network held before.                                                    *)

MaxBCalls == 2

InitBuild ==
    /\ od_pc = "off" /\ od_graph = NoGraph /\ od_results = <<>>
    /\ startpoints = <<>> /\ endpoints = <<>>
    /\ od_lines = FALSE /\ od_rowwise = FALSE
    /\ cutoff = None /\ destination_count = None /\ od_out = <<>>
    /\ \E as_directed \in BOOLEAN, split_lines \in BOOLEAN :
          nwa = NetworkAnalysis([gdf |-> NetworkLines,
                                 nodes |-> make_node_ids(NetworkLines),
                                 not_splitted |-> None,
                                 as_directed |-> as_directed],
                                Rules(split_lines), TRUE)
    /\ call = [method |-> "none", raised |-> "none", results |-> <<>>,
               origins |-> <<>>, destinations |-> None, rowwise |-> FALSE,
               rebuilt |-> FALSE, split |-> FALSE, unsplit |-> FALSE,
               built |-> None, before |-> NoInstance]
    /\ calls = 0 /\ nw = NoNetwork

\* The caller assigns network.gdf
SetNetworkLines ==
    /\ calls < MaxBCalls
    /\ \E lines \in {NetworkLines,
                     NetworkLines \o <<LineRow(<<4, 6>>, 2)>>,
                     <<LineRow(<<0, 2>>, 2), LineRow(<<2, 4>>, -1),
                       LineRow(<<0, 4>>, 4)>>} :
          /\ Geometries(lines) # Geometries(nwa.network.gdf)
             \/ [n \in DOMAIN lines |-> lines[n].weight] #
                   [n \in DOMAIN nwa.network.gdf |-> nwa.network.gdf[n].weight]
          /\ nwa' = [nwa EXCEPT !.network.gdf = lines]
    /\ UNCHANGED <<od_vars, call, calls, nw>>

BuildCalled(method, origins, destinations, rowwise, r) ==
    /\ calls < MaxBCalls
    /\ calls' = calls + 1
    /\ nwa' = r.self
    /\ call' = [method |-> method, raised |-> r.raised, results |-> r.results,
                origins |-> origins, destinations |-> destinations,
                rowwise |-> rowwise, rebuilt |-> r.rebuilt, split |-> r.split,
                unsplit |-> r.unsplit, built |-> r.built, before |-> nwa]
    /\ UNCHANGED <<od_vars, nw>>

BuildOdCostMatrix ==
    \E origins \in {TableOf({1}), TableOf({7}), TableOf({1, 3})},
       destinations \in {TableOf({3}), TableOf({7})}, rowwise \in BOOLEAN :
       BuildCalled("od_cost_matrix", origins, Some(destinations), rowwise,
          NetworkAnalysis_od_cost_matrix(nwa, origins, destinations, FALSE, rowwise))

BuildGetRoute ==
    \E origins \in {TableOf({1}), TableOf({7}), TableOf({1, 3})},
       destinations \in {TableOf({3}), TableOf({7})}, rowwise \in BOOLEAN :
       BuildCalled("get_route", origins, Some(destinations), rowwise,
          get_route(nwa, origins, destinations, rowwise))

BuildGetKRoutes ==
    \E origins \in {TableOf({1}), TableOf({7})},
       destinations \in {TableOf({3}), TableOf({7})},
       drop_middle_percent \in {0, 101} :
       BuildCalled("get_k_routes", origins, Some(destinations), FALSE,
          get_k_routes(nwa, origins, destinations, 1, drop_middle_percent, FALSE))

BuildGetRouteFrequencies ==
    \E origins \in {TableOf({1}), TableOf({7})},
       destinations \in {TableOf({3}), TableOf({7})} :
       BuildCalled("get_route_frequencies", origins, Some(destinations), FALSE,
          get_route_frequencies(nwa, origins, destinations, None, FALSE))

BuildServiceArea ==
    \E origins \in {TableOf({1}), TableOf({7}), TableOf({1, 3})},
       breaks \in {<<1>>, <<3, 1>>} :
       BuildCalled("service_area", origins, None, FALSE,
          service_area(nwa, origins, breaks, FALSE))

BuildPreciceServiceArea ==
    \E origins \in {TableOf({1}), TableOf({7})}, breaks \in {<<1>>, <<3, 1>>} :
       BuildCalled("precice_service_area", origins, None, FALSE,
          precice_service_area(nwa, origins, breaks, FALSE))

NextBuild ==
    \/ SetNetworkLines
    \/ BuildOdCostMatrix
    \/ BuildGetRoute
    \/ BuildGetKRoutes
    \/ BuildGetRouteFrequencies
    \/ BuildServiceArea
    \/ BuildPreciceServiceArea

SpecBuild == InitBuild /\ [][NextBuild]_vars

-----------------------------------------------------------------------------
(* Claims about the graph build, the log and the splitting (SpecBuild).    *)

\* A call got as far as handing edges and weights to _make_graph
BuildCall == call.method # "none" /\ call.built # None

\* The node ids of the node table the edges were made from
NodeIdsAtBuild == 0..(Len(call.built[1].nodes) - 1)

\* C24: when the graph is built the network node ids, the origin temp ids
\* and the destination temp ids are pairwise disjoint: the origin ids lie
\* above every node id and the destination ids start at the maximum origin
\* id + 1, also when the node ids were made anew inside the call.
C24_IdsPairwiseDisjoint ==
    BuildCall =>
        /\ NodeIdsAtBuild \cap Range(call.built[1].origins) = {}
        /\ NodeIdsAtBuild \cap Range(call.built[1].destinations) = {}
        /\ Range(call.built[1].origins) \cap Range(call.built[1].destinations) = {}
        /\ \A n \in DOMAIN call.built[1].destinations :
              call.built[1].destinations[n] = Len(call.built[1].nodes)
                                              + Len(call.built[1].origins) + n - 1

\* C25: the instance never holds a graph with an edge of negative weight:
\* when the lowest of the weights handed to _make_graph is below 0 the call
\* ends with AssertionError and the instance holds the graph it held before
\* the call (or none); the edges and the weights handed to _make_graph are
\* equally many.
C25_NoNegativeWeightInstalled ==
    /\ nwa.graph # None =>
          \A n \in DOMAIN nwa.graph[1].es : nwa.graph[1].es[n].weight >= 0
    /\ BuildCall =>
          /\ Len(call.built[1].edges) = Len(call.built[1].weights)
          /\ (\E n \in DOMAIN call.built[1].weights : call.built[1].weights[n] < 0)
                => (call.raised = "AssertionError" /\ nwa.graph = call.before.graph)

\* A build with a negative weight failed on an instance that held a graph
C25_Witness ==
    /\ BuildCall /\ call.raised = "AssertionError"
    /\ call.before.graph # None /\ nwa.graph = call.before.graph
    /\ \E n \in DOMAIN call.built[1].weights : call.built[1].weights[n] < 0

-----------------------------------------------------------------------------
(* Claim about the raise paths of make_directed_network (SpecDirected).    *)

\* C26: whenever make_directed_network raises, the lines of the network
\* (self.gdf) are the ones of before the call.
C26_RaiseLeavesLinesAsBefore ==
    (Directed /\ call.raised # "none") => nw.gdf = call.before

-----------------------------------------------------------------------------
(* Claim about the graph copy of get_k_routes (SpecKRoutes).               *)

\* The instance right after the preparation of the call: its graph is the
\* one that was built for the call, or the one that was reused
PreparedForCall ==
    _prepare_network_analysis(call.before, call.origins, Some(call.destinations),
                              call.rowwise).self

\* The ranks and costs of the routes of the pair when it is searched alone on
\* the instance's graph
RoutesAlone(p) ==
    LET routes == KRoutesOfPair(nwa.graph[1], p[1].temp_idx, p[2].temp_idx, <<>>,
                                call.k, call.drop_middle_percent, 1)
    IN  [n \in DOMAIN routes |-> <<routes[n].k, routes[n].cost>>]

\* C27: get_k_routes leaves the instance's graph with the vertices and edges
\* it had right after it was built, and the routes of every OD pair are the
\* ones the pair gets when it is searched alone on that graph: the first is
\* a lowest-cost path of the whole graph, whatever was removed for the pairs
\* before it.
C27_EdgesRemovedFromCopyOnly ==
    Searched =>
        /\ nwa.graph = PreparedForCall.graph
        /\ call.raised = "none" =>
              \A p \in KPairs :
                 /\ [n \in DOMAIN RoutesOf(p) |->
                       <<RoutesOf(p)[n].k, RoutesOf(p)[n].cost>>] = RoutesAlone(p)
                 /\ SimplePaths(p) # {} =>
                       /\ RoutesOf(p) # <<>>
                       /\ \A q \in SimplePaths(p) :
                             RoutesOf(p)[1].cost.v <= PathWeight(q)

\* Two pairs of one call whose lowest-cost paths share an edge, the first of
\* which had edges removed for a second route
C27_Witness ==
    /\ Searched /\ call.raised = "none" /\ call.k > 1
    /\ \E p, q \in KPairs :
          /\ p # q /\ RoutesOf(p) # <<>> /\ RoutesOf(q) # <<>>
          /\ \E a \in DOMAIN ShortestPath(nwa.graph[1], p[1].temp_idx, p[2].temp_idx),
                b \in DOMAIN ShortestPath(nwa.graph[1], q[1].temp_idx, q[2].temp_idx) :
                ShortestPath(nwa.graph[1], p[1].temp_idx, p[2].temp_idx)[a][4] =
                   ShortestPath(nwa.graph[1], q[1].temp_idx, q[2].temp_idx)[b][4]

-----------------------------------------------------------------------------
(* Claims about the log and the splitting of the lines (SpecBuild).        *)

\* C28: on an instance that keeps a log, a call that returns adds one row
\* to the end of the log, which names the method that was called, and leaves
\* the rows before it as they were; a call that raises leaves the log as it
\* was.  The log therefore holds one row per returned call, in call order.
C28_OneLogRowPerReturnedCall ==
    call.method # "none" =>
        IF call.raised = "none"
        THEN /\ Len(nwa.log[1]) = Len(call.before.log[1]) + 1
             /\ SubSeq(nwa.log[1], 1, Len(call.before.log[1])) = call.before.log[1]
             /\ nwa.log[1][Len(nwa.log[1])].method = call.method
        ELSE nwa.log = call.before.log

\* A call made with rules.split_lines set
SplitLinesCall == call.method # "none" /\ call.before.rules.split_lines

-----------------------------------------------------------------------------
(* Claim about destination_count in od_cost_matrix (SpecODGraph).          *)

\* The cost the pair has in a returned result: 0 for a pair of one and the
\* same point, the reported cost otherwise
FinalCost(p) == IF SamePoint(p) THEN 0 ELSE Reported(p).v

\* C30: with destination_count set, the row kept for an origin has a cost
\* that no destination the origin reaches at a positive reported cost
\* undercuts, the costs being taken as they are returned, after the
\* same-point correction to 0 (calls without cutoff).
C30_KeptRowIsMinimumOfFinalCosts ==
    (od_pc = "done" /\ Truthy(destination_count) /\ cutoff = None) =>
        \A i \in DOMAIN startpoints :
            \A n \in RowsOfOrigin(i) :
                \A p \in RequestedPairs :
                    (p[1] = i /\ IsNum(Reported(p)) /\ Reported(p).v > 0) =>
                        od_out[n].cost.v <= FinalCost(p)


=============================================================================
